---------------------------- MODULE Spec2Model ----------------------------
(***************************************************************************)
(* Verification model of archmanweb: the man-page ingestion engine         *)
(* (management/commands/man_update.py, management/utils/finder.py), the    *)
(* inclusion resolver (models.py) and the name resolver                     *)
(* (views/man_page.py, utils/django.py, urls.py).                           *)
(*                                                                         *)
(* Text is modelled as a sequence of one-character strings, so that        *)
(* splitting, prefix tests and suffix extraction are computed the way the  *)
(* Python code computes them.                                              *)
(***************************************************************************)
EXTENDS Integers, Sequences, FiniteSets, TLC

VARIABLES
    \* ---- path classifier (man_update.parse_man_path, finder.get_man_contents)
    path,        \* the path of the archive member, as the file listing gives it
    file,        \* its logical path, once the extractor has yielded it
    stage,       \* "member" -> "stripped" -> "parsed"
    parsed,      \* outcome of parse_man_path
    \* ---- content store read by the inclusion resolver (models.py)
    ManPage,     \* table ManPage: id -> row
    Content,     \* table Content: id -> row
    outcome,     \* what the latest call on a page returned or raised
    first_ptr,   \* per page: the converted_content a call set first
    alive,       \* per page: the Content row first_ptr names was never deleted
    recalled,    \* per page: resolve_so_link was called again after that
    \* ---- store and request of the name resolver (views/man_page.py)
    Package,     \* table Package: id -> row
    SymbolicLink, \* table SymbolicLink: id -> row
    url,         \* the address requested, below the site root
    linked,      \* the page the address was built for, NULL when typed
    kwargs,      \* what the route extracted from the address
    response,    \* what the view answered
    trail,       \* the addresses a visitor was redirected from, in order
    \* ---- sync run (man_update.Command.do_update)
    mirror,      \* the repositories and packages the finder sees
    txn,         \* the tables as the run's transaction sees them
    snapshot,    \* the committed tables when the run started
    run,         \* position and options of the run
    rival        \* mirror, txn, snapshot and run of a second sync process

pathVars == <<path, file, stage, parsed>>

soVars == <<ManPage, Content, outcome, first_ptr, alive, recalled>>

webVars == <<Package, SymbolicLink, url, linked, kwargs, response, trail>>

syncVars == <<mirror, txn, snapshot, run, rival>>

tables == <<Package, ManPage, Content, SymbolicLink>>

soCalls == <<outcome, first_ptr, alive, recalled>>

request == <<url, linked, kwargs, response, trail>>

vars == <<pathVars, soVars, webVars, syncVars>>

(***************************************************************************)
(* Text helpers (Python str / pathlib.PurePath semantics)                  *)
(***************************************************************************)
\* None / SQL NULL in a column of row ids (ids are positive)
NULL == 0

\* None where a set of ids is expected (the default of visited_ids)
None_ids == {NULL}

\* Python's None where a text is expected; no text equals it
None == <<"None">>

\* no outcome yet
Nothing == [kind |-> "none"]

\* the default language
en == <<"e","n">>

Last(s) == s[Len(s)]

startswith(s, p) ==
    /\ Len(p) <= Len(s)
    /\ SubSeq(s, 1, Len(p)) = p

endswith(s, p) ==
    /\ Len(p) <= Len(s)
    /\ SubSeq(s, Len(s) - Len(p) + 1, Len(s)) = p

\* str.find(c): first index of the character c in s, 0 when absent (1-based)
find(s, c) ==
    IF \E i \in 1..Len(s) : s[i] = c
    THEN CHOOSE i \in 1..Len(s) : s[i] = c /\ \A j \in 1..(i-1) : s[j] # c
    ELSE 0

\* str.rfind(c): last index of the character c in s, 0 when absent (1-based)
rfind(s, c) ==
    IF \E i \in 1..Len(s) : s[i] = c
    THEN CHOOSE i \in 1..Len(s) : s[i] = c /\ \A j \in (i+1)..Len(s) : s[j] # c
    ELSE 0

\* str.split(c): the pieces between the occurrences of c, empty pieces kept
RECURSIVE split(_, _)
split(s, c) ==
    LET i == find(s, c)
    IN  IF i = 0 THEN <<s>>
        ELSE <<SubSeq(s, 1, i - 1)>> \o split(SubSeq(s, i + 1, Len(s)), c)

\* c.join(parts)
RECURSIVE join(_, _)
join(parts, c) ==
    IF Len(parts) = 0 THEN <<>>
    ELSE IF Len(parts) = 1 THEN parts[1]
    ELSE parts[1] \o <<c>> \o join(Tail(parts), c)

IsRealPart(x) == x # <<>> /\ x # <<".">>

\* PurePath(p).parts without the root: empty and "." components are dropped
PurePathParts(p) == SelectSeq(split(p, "/"), IsRealPart)

\* PurePath(p).name: the last component, "" when there is none
PurePathName(p) ==
    LET ps == PurePathParts(p)
    IN  IF Len(ps) = 0 THEN <<>> ELSE Last(ps)

\* PurePath(p).suffix: from the last dot of the name, unless that dot is the
\* first or the last character of the name
PurePathSuffix(p) ==
    LET n == PurePathName(p)
        i == rfind(n, ".")
    IN  IF 1 < i /\ i < Len(n) THEN SubSeq(n, i, Len(n)) ELSE <<>>

\* PurePath(p).stem: the name without its suffix
PurePathStem(p) ==
    LET n == PurePathName(p)
        i == rfind(n, ".")
    IN  IF 1 < i /\ i < Len(n) THEN SubSeq(n, 1, i - 1) ELSE n

(***************************************************************************)
(* Path classifier                                                         *)
(***************************************************************************)
MANDIR == <<"u","s","r","/","s","h","a","r","e","/","m","a","n","/">>

man == <<"m","a","n">>
gz  == <<".","g","z">>

Rejected == [kind |-> "UnknownManPath"]

\* finder.get_man_contents: `if file.endswith(".gz"): file = file[:-3]`
StripGz(p) == IF endswith(p, gz) THEN SubSeq(p, 1, Len(p) - 3) ELSE p

\* PurePath.relative_to(MANDIR): the parts after usr, share, man
RelativeToMandir(p) ==
    LET ps == PurePathParts(p)
    IN  SubSeq(ps, 4, Len(ps))

\* parse_man_path without the empty-section rejection
parse_man_path_no_section_check(p) ==
    LET man_name    == PurePathStem(p)
        suffix      == PurePathSuffix(p)
        man_section == SubSeq(suffix, 2, Len(suffix))
        pp          == RelativeToMandir(p)
    IN  IF ~startswith(p, MANDIR) THEN Rejected
        ELSE IF Len(pp) = 0 THEN [kind |-> "IndexError"]
        ELSE IF startswith(pp[1], man)
             THEN [kind |-> "ok", name |-> man_name, section |-> man_section,
                   lang |-> <<"e","n">>]
        ELSE IF Len(pp) > 1 /\ startswith(pp[2], man)
             THEN [kind |-> "ok", name |-> man_name, section |-> man_section,
                   lang |-> pp[1]]
        ELSE Rejected

\* parse_man_path taking the language from the directory that begins with "man"
parse_man_path_wrong_part(p) ==
    LET man_name    == PurePathStem(p)
        suffix      == PurePathSuffix(p)
        man_section == SubSeq(suffix, 2, Len(suffix))
        pp          == RelativeToMandir(p)
    IN  IF man_section = <<>> THEN Rejected
        ELSE IF ~startswith(p, MANDIR) THEN Rejected
        ELSE IF Len(pp) = 0 THEN [kind |-> "IndexError"]
        ELSE IF startswith(pp[1], man)
             THEN [kind |-> "ok", name |-> man_name, section |-> man_section,
                   lang |-> <<"e","n">>]
        ELSE IF Len(pp) > 1 /\ startswith(pp[2], man)
             THEN [kind |-> "ok", name |-> man_name, section |-> man_section,
                   lang |-> pp[2]]
        ELSE Rejected

parse_man_path(p) ==
    LET man_name    == PurePathStem(p)
        suffix      == PurePathSuffix(p)
        man_section == SubSeq(suffix, 2, Len(suffix))
        pp          == RelativeToMandir(p)
    IN  IF man_section = <<>> THEN Rejected
        ELSE IF ~startswith(p, MANDIR) THEN Rejected
        ELSE IF Len(pp) = 0 THEN [kind |-> "IndexError"]
        ELSE IF startswith(pp[1], man)
             THEN [kind |-> "ok", name |-> man_name, section |-> man_section,
                   lang |-> <<"e","n">>]
        ELSE IF Len(pp) > 1 /\ startswith(pp[2], man)
             THEN [kind |-> "ok", name |-> man_name, section |-> man_section,
                   lang |-> pp[1]]
        ELSE Rejected

(***************************************************************************)
(* Inputs of the path classifier: a prefix, up to MaxDirs directories and  *)
(* a file name.                                                            *)
(***************************************************************************)
MaxDirs == 2

Prefixes ==
    { MANDIR,
      <<"u","s","r","/","s","h","a","r","e","/">>,
      <<"/">> \o MANDIR,
      <<>> }

Dirs ==
    { <<"m","a","n","1">>, man, <<"m","a","n","x">>, <<"j","a">>,
      <<"r","u",".","K">>, <<"x">> }

Files ==
    { <<"l","s",".","1">>, <<"l","s",".","1",".","g","z">>, <<"l","s">>,
      <<"l","s",".">>, <<".","1">>, <<"a",".","b",".","3","p">>,
      <<"m","a","n",".","1">>, <<"l","s",".","g","z">>,
      <<"e","v","i","m",".","1",".","r","u",".","K","O","I","8","-","R",".","g","z">> }

RECURSIVE DirSeqs(_)
DirSeqs(n) ==
    IF n = 0 THEN { <<>> }
    ELSE DirSeqs(n - 1) \cup
         { ds \o <<d>> : ds \in { x \in DirSeqs(n - 1) : Len(x) = n - 1 }, d \in Dirs }

\* prefix + dir/dir/.../file
RECURSIVE UnderDirs(_, _)
UnderDirs(ds, f) ==
    IF Len(ds) = 0 THEN f ELSE ds[1] \o <<"/">> \o UnderDirs(Tail(ds), f)

Paths == { pre \o UnderDirs(ds, f) : pre \in Prefixes, ds \in DirSeqs(MaxDirs), f \in Files }

PathIdle ==
    /\ path = <<>>
    /\ file = <<>>
    /\ stage = "idle"
    /\ parsed = Nothing

SoQuiet ==
    /\ outcome = Nothing
    /\ first_ptr = <<>>
    /\ alive = <<>>
    /\ recalled = <<>>

SoIdle ==
    /\ ManPage = <<>>
    /\ Content = <<>>
    /\ SoQuiet

WebFresh ==
    /\ url = <<>>
    /\ linked = NULL
    /\ kwargs = Nothing
    /\ response = Nothing
    /\ trail = <<>>

WebIdle ==
    /\ Package = <<>>
    /\ SymbolicLink = <<>>
    /\ WebFresh

\* no sync run has started
SyncIdle ==
    /\ mirror = [repos |-> {}, pkgcache |-> <<>>, cachedir |-> {}]
    /\ txn = [Package |-> <<>>, ManPage |-> <<>>, Content |-> <<>>,
              SymbolicLink |-> <<>>]
    /\ snapshot = txn
    /\ run = [pc |-> "idle", n |-> 0]
    /\ rival = [mirror |-> mirror, txn |-> txn, snapshot |-> snapshot, run |-> run]

\* `lang, _ = lang.split(".", maxsplit=1)`: the language without its
\* encoding hint
drop_encoding(lang) ==
    IF find(lang, ".") > 0 THEN SubSeq(lang, 1, find(lang, ".") - 1) ELSE lang

\* `man_lang, encoding_hint = man_lang.split(".", maxsplit=1)`, or no hint
\* when the language has no dot
encoding_hint_of(lang) ==
    IF find(lang, ".") > 0 THEN SubSeq(lang, find(lang, ".") + 1, Len(lang))
    ELSE <<"None">>

InitPath ==
    /\ path \in Paths
    /\ file = <<>>
    /\ stage = "member"
    /\ parsed = Nothing
    /\ SoIdle
    /\ WebIdle
    /\ SyncIdle

\* finder.get_man_contents strips the .gz suffix of the member's logical path
Extract ==
    /\ stage = "member"
    /\ file' = StripGz(path)
    /\ stage' = "stripped"
    /\ UNCHANGED <<path, parsed, soVars, webVars, syncVars>>

\* update_man_pages classifies the logical path
Classify ==
    /\ stage = "stripped"
    /\ parsed' = parse_man_path(file)
    /\ stage' = "parsed"
    /\ UNCHANGED <<path, file, soVars, webVars, syncVars>>

\* update_man_pages splits the encoding hint off the language of a file entry
SplitEncodingHint ==
    /\ stage = "parsed"
    /\ parsed.kind = "ok"
    /\ parsed' = [kind |-> "ok", name |-> parsed.name, section |-> parsed.section,
                  lang |-> drop_encoding(parsed.lang),
                  encoding_hint |-> encoding_hint_of(parsed.lang)]
    /\ stage' = "hinted"
    /\ UNCHANGED <<path, file, soVars, webVars, syncVars>>

NextPath == Extract \/ Classify \/ SplitEncodingHint

SpecPath == InitPath /\ [][NextPath]_vars

(***************************************************************************)
(* Claims about the path classifier                                        *)
(***************************************************************************)
\* the segments of a path after the man-directory prefix, as written
SegmentsAfterPrefix(p) == split(SubSeq(p, Len(MANDIR) + 1, Len(p)), "/")

\* f has the form <name>.<section>: a dot that is not its first character,
\* and a non-empty section after the last dot
HasNameAndSection(f) ==
    /\ Len(f) >= 3
    /\ Last(f) # "."
    /\ \E i \in 2..(Len(f) - 1) : f[i] = "."

\* parsed is (name, section, lang) with f = name.section, section without dot
YieldsNameSectionOf(f, lang) ==
    /\ parsed.kind = "ok"
    /\ parsed.name \o <<".">> \o parsed.section = f
    /\ parsed.name # <<>>
    /\ parsed.section # <<>>
    /\ \A i \in 1..Len(parsed.section) : parsed.section[i] # "."
    /\ parsed.lang = lang

\* C9: parse_man_path either rejects the path with UnknownManPath or returns
\* (name, section, lang) with a non-empty name and a non-empty section; every
\* path that does not begin with usr/share/man/ is rejected.
C9_ClassifyOrReject ==
    stage = "parsed" =>
        /\ parsed.kind \in {"ok", "UnknownManPath"}
        /\ parsed.kind = "ok" => parsed.name # <<>> /\ parsed.section # <<>>
        /\ ~startswith(file, MANDIR) => parsed = Rejected

\* C9 witness: a path under the man directory was classified and accepted
C9_Witness ==
    /\ stage = "parsed"
    /\ startswith(file, MANDIR)
    /\ parsed.kind = "ok"

\* C10: after the extractor stripped .gz, man<X>/<name>.<section> under the
\* prefix yields (name, section, "en"); <lang>/man<X>/<name>.<section> (the
\* first segment not itself beginning with "man") yields (name, section,
\* lang); a path whose first segment does not begin with "man" and that has no
\* later segment beginning with "man" is rejected; the two examples
\* usr/share/man/man1/ls.1.gz and usr/share/man/ja/man1/ls.1.gz give
\* ("ls","1","en") and ("ls","1","ja").
C10_ClassifyShapes ==
    stage = "parsed" /\ startswith(file, MANDIR) =>
        LET segs == SegmentsAfterPrefix(file)
        IN  /\ ( /\ Len(segs) = 2
                 /\ startswith(segs[1], man)
                 /\ HasNameAndSection(segs[2]) )
               => YieldsNameSectionOf(segs[2], en)
            /\ ( /\ Len(segs) = 3
                 /\ segs[1] # <<>>
                 /\ ~startswith(segs[1], man)
                 /\ startswith(segs[2], man)
                 /\ HasNameAndSection(segs[3]) )
               => YieldsNameSectionOf(segs[3], segs[1])
            /\ ( \A i \in 1..Len(segs) : ~startswith(segs[i], man) )
               => parsed = Rejected
            /\ path = MANDIR \o <<"m","a","n","1","/","l","s",".","1",".","g","z">>
               => parsed = [kind |-> "ok", name |-> <<"l","s">>,
                            section |-> <<"1">>, lang |-> en]
            /\ path = MANDIR \o <<"j","a","/","m","a","n","1","/","l","s",".","1",".","g","z">>
               => parsed = [kind |-> "ok", name |-> <<"l","s">>,
                            section |-> <<"1">>, lang |-> <<"j","a">>]

\* C10 witness: the gzipped page of a language directory was classified
C10_Witness ==
    /\ stage = "parsed"
    /\ path = MANDIR \o <<"j","a","/","m","a","n","1","/","l","s",".","1",".","g","z">>
    /\ parsed.kind = "ok"
    /\ parsed.lang = <<"j","a">>

\* the path of scenario 3
evim_path ==
    MANDIR \o <<"m","a","n","1","/","e","v","i","m",".","1",".","r","u",".",
                "K","O","I","8","-","R",".","g","z">>

\* C11: the path usr/share/man/man1/evim.1.ru.KOI8-R.gz, stripped of .gz and
\* classified, yields name "evim", section "1", language "ru" and encoding
\* hint "KOI8-R".
C11_EvimScenario ==
    stage = "hinted" /\ path = evim_path =>
        parsed = [kind |-> "ok", name |-> <<"e","v","i","m">>, section |-> <<"1">>,
                  lang |-> <<"r","u">>,
                  encoding_hint |-> <<"K","O","I","8","-","R">>]

(***************************************************************************)
(* Inclusion resolver (models.py): ManPage.resolve_so_link and             *)
(* ManPage.get_preprocessed_content.                                       *)
(*                                                                         *)
(* A raw page is a sequence of lines.  A line is a roff comment (it begins *)
(* with .\"), a blank line, a `.so <target>` request or any other text.    *)
(***************************************************************************)
CommentLine == [kind |-> "comment"]
BlankLine   == [kind |-> "blank"]
TextLine    == [kind |-> "text"]
SoLine(t)   == [kind |-> "so", target |-> t]
\* a fallback that does not name the file
FallbackLine_anonymous(t) == [kind |-> "fallback", target |-> <<>>]

\* mandoc's fallback for a reference that cannot be followed
FallbackLine(t) == [kind |-> "fallback", target |-> t]

\* the characters [A-Za-z0-9@._+\-:\[\]\/] of the two .so patterns (the
\* letters and digits the model's paths are written with)
SoPathChars ==
    { "a","b","c","d","e","f","g","h","i","j","k","l","m","n","o","p","q","r",
      "s","t","u","v","w","x","y","z","0","1","2","3","4","5","6","7","8","9",
      "@",".","_","+","-",":","[","]","/" }

\* the line matches ^\.so [A-Za-z0-9@._+\-:\[\]\/]+\s*$
IsSoRequest(line) ==
    /\ line.kind = "so"
    /\ Len(line.target) > 0
    /\ \A i \in 1..Len(line.target) : line.target[i] \in SoPathChars

\* re.sub(r'^\.\\".*', "", raw, flags=re.MULTILINE): comment lines become empty
DropComments(raw) ==
    [i \in 1..Len(raw) |-> IF raw[i].kind = "comment" THEN BlankLine ELSE raw[i]]

\* str.strip(): leading and trailing blank lines go
RECURSIVE lstrip(_)
lstrip(ls) ==
    IF Len(ls) > 0 /\ Head(ls).kind = "blank" THEN lstrip(Tail(ls)) ELSE ls

RECURSIVE rstrip(_)
rstrip(ls) ==
    IF Len(ls) > 0 /\ Last(ls).kind = "blank"
    THEN rstrip(SubSeq(ls, 1, Len(ls) - 1)) ELSE ls

strip(ls) == rstrip(lstrip(ls))

SoelimError(msg, mp) == [kind |-> "SoelimError", msg |-> msg, mp |-> mp, text |-> <<>>]

Returned(text, mp) == [kind |-> "ok", msg |-> "", mp |-> mp, text |-> text]

\* ManPage.objects.filter(section=, name=, lang=)
PagesNamed(mp, name, section, lang) ==
    { q \in DOMAIN mp : /\ mp[q].section = section
                        /\ mp[q].name = name
                        /\ mp[q].lang = lang }

SetPointer(mp, id, cid) == [mp EXCEPT ![id].converted_content_id = cid]

\* resolve_so_link that resolves again although the pointer is already set
resolve_so_link_again(mp, self) ==
    LET stripped == strip(DropComments(Content[mp[self].content_id].raw))
    IN  IF Len(stripped) = 1 /\ IsSoRequest(stripped[1])
        THEN LET target_name    == PurePathStem(stripped[1].target)
                 suffix         == PurePathSuffix(stripped[1].target)
                 target_section == SubSeq(suffix, 2, Len(suffix))
                 query == PagesNamed(mp, target_name, target_section, mp[self].lang)
                 same  == { q \in query : mp[q].package = mp[self].package }
             IN  IF query = {} THEN SoelimError("unknown target page", mp)
                 ELSE IF Cardinality(query) = 1
                      THEN Returned(<<>>, SetPointer(mp, self,
                               mp[CHOOSE q \in query : TRUE].content_id))
                 ELSE IF same = {} THEN SoelimError("ambiguous target page", mp)
                 ELSE Returned(<<>>, SetPointer(mp, self,
                          mp[CHOOSE q \in same : TRUE].content_id))
        ELSE Returned(<<>>, SetPointer(mp, self, mp[self].content_id))

\* resolve_so_link that looks the target up in every language
resolve_so_link_any_lang(mp, self) ==
    IF mp[self].converted_content_id # NULL THEN Returned(<<>>, mp)
    ELSE
    LET stripped == strip(DropComments(Content[mp[self].content_id].raw))
    IN  IF Len(stripped) = 1 /\ IsSoRequest(stripped[1])
        THEN LET target_name    == PurePathStem(stripped[1].target)
                 suffix         == PurePathSuffix(stripped[1].target)
                 target_section == SubSeq(suffix, 2, Len(suffix))
                 query == { q \in DOMAIN mp : /\ mp[q].section = target_section
                                              /\ mp[q].name = target_name }
                 same  == { q \in query : mp[q].package = mp[self].package }
             IN  IF query = {} THEN SoelimError("unknown target page", mp)
                 ELSE IF Cardinality(query) = 1
                      THEN Returned(<<>>, SetPointer(mp, self,
                               mp[CHOOSE q \in query : TRUE].content_id))
                 ELSE IF same = {} THEN SoelimError("ambiguous target page", mp)
                 ELSE Returned(<<>>, SetPointer(mp, self,
                          mp[CHOOSE q \in same : TRUE].content_id))
        ELSE Returned(<<>>, SetPointer(mp, self, mp[self].content_id))

\* resolve_so_link that takes the first of several pages of the target's name
resolve_so_link_first_match(mp, self) ==
    IF mp[self].converted_content_id # NULL THEN Returned(<<>>, mp)
    ELSE
    LET stripped == strip(DropComments(Content[mp[self].content_id].raw))
    IN  IF Len(stripped) = 1 /\ IsSoRequest(stripped[1])
        THEN LET target_name    == PurePathStem(stripped[1].target)
                 suffix         == PurePathSuffix(stripped[1].target)
                 target_section == SubSeq(suffix, 2, Len(suffix))
                 query == PagesNamed(mp, target_name, target_section, mp[self].lang)
             IN  IF query = {} THEN SoelimError("unknown target page", mp)
                 ELSE Returned(<<>>, SetPointer(mp, self,
                          mp[CHOOSE q \in query : \A o \in query : q <= o].content_id))
        ELSE Returned(<<>>, SetPointer(mp, self, mp[self].content_id))

\* ManPage.resolve_so_link on the row `self` of the table mp: the table after
\* self.save(), or the SoelimError raised before anything is saved
resolve_so_link(mp, self) ==
    IF mp[self].converted_content_id # NULL THEN Returned(<<>>, mp)
    ELSE
    LET stripped == strip(DropComments(Content[mp[self].content_id].raw))
    IN  IF Len(stripped) = 1 /\ IsSoRequest(stripped[1])
        THEN LET target_name    == PurePathStem(stripped[1].target)
                 suffix         == PurePathSuffix(stripped[1].target)
                 target_section == SubSeq(suffix, 2, Len(suffix))
                 query == PagesNamed(mp, target_name, target_section, mp[self].lang)
                 same  == { q \in query : mp[q].package = mp[self].package }
             IN  IF query = {} THEN SoelimError("unknown target page", mp)
                 ELSE IF Cardinality(query) = 1
                      THEN Returned(<<>>, SetPointer(mp, self,
                               mp[CHOOSE q \in query : TRUE].content_id))
                 ELSE IF same = {} THEN SoelimError("ambiguous target page", mp)
                 ELSE Returned(<<>>, SetPointer(mp, self,
                          mp[CHOOSE q \in same : TRUE].content_id))
        ELSE Returned(<<>>, SetPointer(mp, self, mp[self].content_id))

\* the recursion depth ceiling of get_preprocessed_content
RecursionLimit == 100

RECURSIVE preprocess(_, _, _, _)
RECURSIVE substitute(_, _, _, _, _, _)

\* re.sub over the lines of the content, left to right: every .so request is
\* replaced by repl(match); the first SoelimError raised ends the call
substitute(mp, self, visited_ids, level, lines, out) ==
    IF Len(lines) = 0 THEN Returned(out, mp)
    ELSE IF ~IsSoRequest(Head(lines))
         THEN substitute(mp, self, visited_ids, level, Tail(lines),
                         Append(out, Head(lines)))
    ELSE
    LET target         == Head(lines).target
        target_name    == PurePathStem(target)
        suffix         == PurePathSuffix(target)
        target_section == SubSeq(suffix, 2, Len(suffix))
        mans == PagesNamed(mp, target_name, target_section, mp[self].lang)
        same == { q \in mans : mp[q].package = mp[self].package }
        found == IF Cardinality(mans) = 1 THEN mans ELSE same
    IN  IF found = {}
        THEN substitute(mp, self, visited_ids, level, Tail(lines),
                        Append(out, FallbackLine(target)))
        ELSE CHOOSE res \in
               { IF r.kind # "ok" THEN r
                 ELSE substitute(r.mp, self, visited_ids, level, Tail(lines),
                                 out \o r.text) :
                 r \in { preprocess(mp, CHOOSE q \in found : TRUE,
                                    visited_ids \cup {self}, level + 1) } } : TRUE

\* get_preprocessed_content without the ceiling on the recursion level
preprocess_no_ceiling(mp, self, visited_ids, level) ==
    IF visited_ids # None_ids /\ self \in visited_ids
    THEN SoelimError("inclusion cycle detected", mp)
    ELSE CHOOSE res \in
           { IF r.kind # "ok" THEN r
             ELSE substitute(r.mp, self,
                             IF visited_ids = None_ids THEN {self} ELSE visited_ids,
                             level,
                             Content[r.mp[self].converted_content_id].raw,
                             <<>>) :
             r \in { resolve_so_link(mp, self) } } : TRUE

\* ManPage.get_preprocessed_content(visited_ids, level); visited_ids = None_ids is
\* the call without arguments
preprocess(mp, self, visited_ids, level) ==
    IF visited_ids # None_ids /\ self \in visited_ids
    THEN SoelimError("inclusion cycle detected", mp)
    ELSE IF visited_ids # None_ids /\ level > RecursionLimit
    THEN SoelimError("recursion depth exceeded", mp)
    ELSE CHOOSE res \in
           { IF r.kind # "ok" THEN r
             ELSE substitute(r.mp, self,
                             IF visited_ids = None_ids THEN {self} ELSE visited_ids,
                             level,
                             Content[r.mp[self].converted_content_id].raw,
                             <<>>) :
             r \in { resolve_so_link(mp, self) } } : TRUE

RECURSIVE preprocess_unchecked(_, _, _, _)
RECURSIVE substitute_unchecked(_, _, _, _, _, _)

\* its re.sub
substitute_unchecked(mp, self, visited_ids, level, lines, out) ==
    IF Len(lines) = 0 THEN Returned(out, mp)
    ELSE IF ~IsSoRequest(Head(lines))
         THEN substitute_unchecked(mp, self, visited_ids, level, Tail(lines),
                         Append(out, Head(lines)))
    ELSE
    LET target         == Head(lines).target
        target_name    == PurePathStem(target)
        suffix         == PurePathSuffix(target)
        target_section == SubSeq(suffix, 2, Len(suffix))
        mans == PagesNamed(mp, target_name, target_section, mp[self].lang)
        same == { q \in mans : mp[q].package = mp[self].package }
        found == IF Cardinality(mans) = 1 THEN mans ELSE same
    IN  IF found = {}
        THEN substitute_unchecked(mp, self, visited_ids, level, Tail(lines),
                        Append(out, FallbackLine(target)))
        ELSE CHOOSE res \in
               { IF r.kind # "ok" THEN r
                 ELSE substitute_unchecked(r.mp, self, visited_ids, level, Tail(lines),
                                 out \o r.text) :
                 r \in { preprocess_unchecked(mp, CHOOSE q \in found : TRUE,
                                    visited_ids \cup {self}, level + 1) } } : TRUE

\* the recursion that drops a page met again instead of raising
preprocess_unchecked(mp, self, visited_ids, level) ==
    IF visited_ids # None_ids /\ self \in visited_ids
    THEN Returned(<<>>, mp)
    ELSE IF visited_ids # None_ids /\ level > RecursionLimit
    THEN SoelimError("recursion depth exceeded", mp)
    ELSE CHOOSE res \in
           { IF r.kind # "ok" THEN r
             ELSE substitute_unchecked(r.mp, self,
                             IF visited_ids = None_ids THEN {self} ELSE visited_ids,
                             level,
                             Content[r.mp[self].converted_content_id].raw,
                             <<>>) :
             r \in { resolve_so_link(mp, self) } } : TRUE

\* get_preprocessed_content that never raises the inclusion cycle
get_preprocessed_content_no_cycle_check(mp, self) ==
    preprocess_unchecked(mp, self, None_ids, 0)

RECURSIVE preprocess_sharing(_, _, _, _)
RECURSIVE substitute_sharing(_, _, _, _, _, _)

\* its re.sub: what a nested call added to the set is seen by the next one
substitute_sharing(mp, self, seen, level, lines, out) ==
    IF Len(lines) = 0
    THEN [kind |-> "ok", msg |-> "", mp |-> mp, text |-> out, seen |-> seen]
    ELSE IF ~IsSoRequest(Head(lines))
         THEN substitute_sharing(mp, self, seen, level, Tail(lines),
                                 Append(out, Head(lines)))
    ELSE
    LET target         == Head(lines).target
        target_name    == PurePathStem(target)
        suffix         == PurePathSuffix(target)
        target_section == SubSeq(suffix, 2, Len(suffix))
        mans == PagesNamed(mp, target_name, target_section, mp[self].lang)
        same == { q \in mans : mp[q].package = mp[self].package }
        found == IF Cardinality(mans) = 1 THEN mans ELSE same
    IN  IF found = {}
        THEN substitute_sharing(mp, self, seen, level, Tail(lines),
                                Append(out, FallbackLine(target)))
        ELSE CHOOSE res \in
               { IF r.kind # "ok" THEN r
                 ELSE substitute_sharing(r.mp, self, r.seen, level, Tail(lines),
                                         out \o r.text) :
                 r \in { preprocess_sharing(mp, CHOOSE q \in found : TRUE,
                                            seen, level + 1) } } : TRUE

\* the recursion with one set of visited ids that every call adds itself to
preprocess_sharing(mp, self, seen, level) ==
    IF self \in seen
    THEN [kind |-> "SoelimError", msg |-> "inclusion cycle detected", mp |-> mp,
          text |-> <<>>, seen |-> seen]
    ELSE IF level > RecursionLimit
    THEN [kind |-> "SoelimError", msg |-> "recursion depth exceeded", mp |-> mp,
          text |-> <<>>, seen |-> seen]
    ELSE CHOOSE res \in
           { IF r.kind # "ok"
             THEN [kind |-> r.kind, msg |-> r.msg, mp |-> r.mp, text |-> r.text,
                   seen |-> seen]
             ELSE substitute_sharing(r.mp, self, seen \cup {self}, level,
                                     Content[r.mp[self].converted_content_id].raw,
                                     <<>>) :
             r \in { resolve_so_link(mp, self) } } : TRUE

\* get_preprocessed_content whose visited set is shared by all the calls
get_preprocessed_content_shared_visited(mp, self) ==
    CHOOSE res \in
      { [kind |-> r.kind, msg |-> r.msg, mp |-> r.mp, text |-> r.text] :
        r \in { preprocess_sharing(mp, self, {}, 0) } } : TRUE

\* ManPage.get_preprocessed_content(), as get_converted calls it
get_preprocessed_content(mp, self) == preprocess(mp, self, None_ids, 0)

\* mandoc_convert and postprocess: the rendering of the lines in the output
\* type (what mandoc prints is not modelled)
mandoc_convert(content, output_type) == <<output_type>> \o content

\* ManPage.get_content(format) for a converted format
get_content(ct, mp, self, format) == ct[mp[self].converted_content_id][format]

\* ManPage.set_content(format, text)
set_content(ct, mp, self, format, text) ==
    [c \in DOMAIN ct |->
        IF c = mp[self].converted_content_id
        THEN [ct[c] EXCEPT ![format] = text] ELSE ct[c]]

Converted(kind, msg, mp, ct, text) ==
    [kind |-> kind, msg |-> msg, mp |-> mp, ct |-> ct, text |-> text]

\* ManPage.get_converted(output_type) on the row `self`: the tables after it
\* and the text it returns, or the SoelimError it raises
get_converted(mp, ct, self, output_type) ==
    CHOOSE res \in
      { IF r.kind # "ok" THEN Converted(r.kind, r.msg, r.mp, ct, <<>>)
        ELSE IF get_content(ct, r.mp, self, output_type) # None
        THEN Converted("ok", "", r.mp, ct, get_content(ct, r.mp, self, output_type))
        ELSE CHOOSE done \in
               { IF p.kind # "ok" THEN Converted(p.kind, p.msg, p.mp, ct, <<>>)
                 ELSE Converted("ok", "", p.mp,
                                set_content(ct, p.mp, self, output_type,
                                            mandoc_convert(p.text, output_type)),
                                mandoc_convert(p.text, output_type)) :
                 p \in { get_preprocessed_content(r.mp, self) } } : TRUE :
        r \in { resolve_so_link(mp, self) } } : TRUE

(***************************************************************************)
(* The store the inclusion resolver reads.  Pages come and go with sync    *)
(* runs; page ids and content ids are the rows' primary keys.              *)
(***************************************************************************)
MaxSoPages == 3

a1 == <<"m","a","n","1","/","a",".","1">>
b1 == <<"m","a","n","1","/","b",".","1">>
z1 == <<"z",".","1">>

\* the (package, name, section, lang) of the pages that may be stored
PageKeys ==
    << [package |-> "p", name |-> <<"a">>, section |-> <<"1">>, lang |-> <<"e","n">>],
       [package |-> "p", name |-> <<"b">>, section |-> <<"1">>, lang |-> <<"e","n">>],
       [package |-> "q", name |-> <<"b">>, section |-> <<"1">>, lang |-> <<"e","n">>],
       [package |-> "q", name |-> <<"b">>, section |-> <<"1">>, lang |-> <<"d","e">>],
       [package |-> "r", name |-> <<"c">>, section |-> <<"1">>, lang |-> <<"e","n">>] >>

PageIds == DOMAIN PageKeys

\* raw contents a package may ship: plain text, a page that is nothing but a
\* .so request (with or without comments and blank lines around it), a page
\* with requests among other lines, a request for a page nobody ships
Raws ==
    { <<TextLine>>,
      <<SoLine(b1)>>,
      <<CommentLine, SoLine(a1), BlankLine>>,
      <<SoLine(b1), TextLine, SoLine(a1)>>,
      <<SoLine(z1)>> }

\* the translated page is plain text, and the page of the third package has
\* requests for pages of the other two
RawsOf(id) ==
    IF PageKeys[id].lang # <<"e","n">> THEN { <<TextLine>> }
    ELSE IF PageKeys[id].package = "r"
         THEN { <<SoLine(b1)>>, <<SoLine(b1), TextLine, SoLine(a1)>> }
    ELSE Raws

InitSo ==
    /\ ManPage = <<>>
    /\ Content = <<>>
    /\ outcome = Nothing
    /\ first_ptr = [p \in PageIds |-> NULL]
    /\ alive = [p \in PageIds |-> FALSE]
    /\ recalled = [p \in PageIds |-> FALSE]
    /\ PathIdle
    /\ WebIdle
    /\ SyncIdle

\* the pointer a call set first on each page, and whether its row still exists
NoteFirst(mp) ==
    /\ first_ptr' = [p \in PageIds |->
          IF first_ptr[p] = NULL /\ p \in DOMAIN mp
          THEN mp[p].converted_content_id ELSE first_ptr[p]]
    /\ alive' = [p \in PageIds |->
          IF first_ptr[p] = NULL /\ p \in DOMAIN mp
          THEN mp[p].converted_content_id # NULL ELSE alive[p]]

\* a sync run stores the page `id` of an updated package: a new Content row
\* with the raw text and a ManPage row whose converted_content is unset
StorePage(id, raw) ==
    /\ id \notin DOMAIN ManPage
    /\ Cardinality(DOMAIN ManPage) < MaxSoPages
    /\ Content' = Content @@ (id :> [raw |-> raw, html |-> None, txt |-> None])
    /\ ManPage' = ManPage @@
          (id :> [package |-> PageKeys[id].package, name |-> PageKeys[id].name,
                  section |-> PageKeys[id].section, lang |-> PageKeys[id].lang,
                  content_id |-> id, converted_content_id |-> NULL])
    /\ outcome' = Nothing
    /\ UNCHANGED <<first_ptr, alive, recalled, pathVars, webVars, syncVars>>

\* a deletion of the unreferenced rows that leaves converted_content alone
DeleteUnreferenced_keeps_pointers(mp, ct) ==
    LET gone == { c \in DOMAIN ct : \A q \in DOMAIN mp : mp[q].content_id # c }
    IN  [ManPage |-> mp,
         Content |-> [c \in DOMAIN ct \ gone |-> ct[c]],
         gone    |-> gone]

\* Content.objects.filter(manpage_content__isnull=True).delete(): the rows no
\* ManPage.content names go, and converted_content (on_delete=SET_NULL) of the
\* pages that named them becomes NULL
DeleteUnreferenced(mp, ct) ==
    LET gone == { c \in DOMAIN ct : \A q \in DOMAIN mp : mp[q].content_id # c }
    IN  [ManPage |-> [q \in DOMAIN mp |->
                        IF mp[q].converted_content_id \in gone
                        THEN [mp[q] EXCEPT !.converted_content_id = NULL]
                        ELSE mp[q]],
         Content |-> [c \in DOMAIN ct \ gone |-> ct[c]],
         gone    |-> gone]

\* a sync run deletes the page `id` (its file or its package is gone), then
\* deletes the unreferenced Content rows
DeletePage(id) ==
    /\ id \in DOMAIN ManPage
    /\ LET db == DeleteUnreferenced([q \in DOMAIN ManPage \ {id} |-> ManPage[q]],
                                    Content)
       IN  /\ ManPage' = db.ManPage
           /\ Content' = db.Content
           /\ first_ptr' = [first_ptr EXCEPT ![id] = NULL]
           /\ alive' = [p \in PageIds |->
                          p # id /\ alive[p] /\ first_ptr[p] \notin db.gone]
           /\ recalled' = [recalled EXCEPT ![id] = FALSE]
    /\ outcome' = Nothing
    /\ UNCHANGED <<pathVars, webVars, syncVars>>

\* a reader or a conversion worker calls resolve_so_link on the page
ResolveSoLink(id) ==
    /\ id \in DOMAIN ManPage
    /\ \E r \in { resolve_so_link(ManPage, id) } :
           /\ ManPage' = r.mp
           /\ outcome' = [op |-> "resolve_so_link", page |-> id,
                          before |-> ManPage[id].converted_content_id,
                          kind |-> r.kind, msg |-> r.msg, text |-> r.text]
           /\ NoteFirst(r.mp)
    /\ recalled' = [recalled EXCEPT ![id] = first_ptr[id] # NULL]
    /\ UNCHANGED <<Content, pathVars, webVars, syncVars>>

\* a reader or a conversion worker calls get_preprocessed_content on the page
GetPreprocessedContent(id) ==
    /\ id \in DOMAIN ManPage
    /\ \E r \in { get_preprocessed_content(ManPage, id) } :
           /\ ManPage' = r.mp
           /\ outcome' = [op |-> "get_preprocessed_content", page |-> id,
                          before |-> ManPage[id].converted_content_id,
                          kind |-> r.kind, msg |-> r.msg, text |-> r.text]
           /\ NoteFirst(r.mp)
    /\ UNCHANGED <<Content, recalled, pathVars, webVars, syncVars>>

\* a reader or a conversion worker calls get_converted on the page
GetConverted(id, output_type) ==
    /\ id \in DOMAIN ManPage
    /\ \E r \in { get_converted(ManPage, Content, id, output_type) } :
           /\ ManPage' = r.mp
           /\ Content' = r.ct
           /\ outcome' = [op |-> "get_converted", page |-> id,
                          before |-> ManPage[id].converted_content_id,
                          kind |-> r.kind, msg |-> r.msg, text |-> r.text,
                          raw |-> Content[ManPage[id].content_id].raw]
           /\ NoteFirst(r.mp)
    /\ UNCHANGED <<recalled, pathVars, webVars, syncVars>>

\* the pages of two packages with a translation, for the calls of
\* resolve_so_link and get_preprocessed_content
SoIds == {1, 2, 3, 4, 5}

NextSo ==
    \/ \E id \in SoIds : \E raw \in RawsOf(id) : StorePage(id, raw)
    \/ \E id \in SoIds : DeletePage(id)
    \/ \E id \in SoIds : ResolveSoLink(id)
    \/ \E id \in SoIds : GetPreprocessedContent(id)

SpecSo == InitSo /\ [][NextSo]_vars

\* the three pages of one package, for the calls of get_converted
ConvIds == {1, 2, 5}

\* plain text, an alias of b.1 and an alias of a.1
ConvRaws == { <<TextLine>>, <<SoLine(b1)>>, <<CommentLine, SoLine(a1), BlankLine>> }

NextConv ==
    \/ \E id \in ConvIds : \E raw \in ConvRaws : StorePage(id, raw)
    \/ \E id \in ConvIds : DeletePage(id)
    \/ \E id \in ConvIds : \E output_type \in {"html", "txt"} :
          GetConverted(id, output_type)

SpecConv == InitSo /\ [][NextConv]_vars

(***************************************************************************)
(* A chain of pages of one package: page i is a line of text and a request *)
(* for page i + 1.  The call on the first page is the one a reader makes;  *)
(* a call on a later page is the recursive call that the expansion of the  *)
(* page before it makes, at some level of a longer chain whose pages above *)
(* are in visited_ids.                                                     *)
(***************************************************************************)
MaxChain == 4

Digits == <<"0","1","2","3","4","5","6","7","8","9">>

RECURSIVE Dec(_)
\* str(i)
Dec(i) ==
    IF i < 10 THEN <<Digits[i + 1]>>
    ELSE Dec(i \div 10) \o <<Digits[(i % 10) + 1]>>

ChainName(i) == <<"p">> \o Dec(i)

ChainRaw(i) == <<TextLine, SoLine(ChainName(i + 1) \o <<".","1">>)>>

\* the levels of the recursive calls, around the ceiling
Levels == (RecursionLimit - 2) .. (RecursionLimit + 1)

\* a sync run stores the next page of the chain
StoreChainPage ==
    /\ Cardinality(DOMAIN ManPage) < MaxChain
    /\ \E i \in { Cardinality(DOMAIN ManPage) + 1 } :
         /\ Content' = Content @@
               (i :> [raw |-> ChainRaw(i), html |-> None, txt |-> None])
         /\ ManPage' = ManPage @@
               (i :> [package |-> "p", name |-> ChainName(i), section |-> <<"1">>,
                      lang |-> <<"e","n">>, content_id |-> i,
                      converted_content_id |-> NULL])
    /\ outcome' = Nothing
    /\ UNCHANGED <<first_ptr, alive, recalled, pathVars, webVars, syncVars>>

\* get_preprocessed_content() on the first page, or
\* get_preprocessed_content(visited_ids=..., level=...) on a later one
ExpandChain(id, level) ==
    /\ id \in DOMAIN ManPage
    /\ IF id = 1 THEN level = 0 ELSE level \in Levels
    /\ \E r \in { preprocess(ManPage, id,
                              IF id = 1 THEN None_ids ELSE 1 .. (id - 1), level) } :
           /\ ManPage' = r.mp
           /\ outcome' = [op |-> "get_preprocessed_content", page |-> id,
                          before |-> ManPage[id].converted_content_id,
                          level |-> level,
                          resolved |-> { q \in DOMAIN ManPage :
                                          /\ ManPage[q].converted_content_id = NULL
                                          /\ r.mp[q].converted_content_id # NULL },
                          kind |-> r.kind, msg |-> r.msg, text |-> r.text]
    /\ UNCHANGED <<Content, first_ptr, alive, recalled, pathVars, webVars, syncVars>>

NextChain ==
    \/ StoreChainPage
    \/ \E id \in 1 .. MaxChain, level \in Levels \cup {0} : ExpandChain(id, level)

SpecChain == InitSo /\ [][NextChain]_vars

(***************************************************************************)
(* Claims about the inclusion resolver                                     *)
(***************************************************************************)
\* the page named by the last component of a request's path, as seen from
\* the page `self`: the only page of that name, section and language, or the
\* one of them in the package of `self`
TargetsOfRequest(mp, self, target) ==
    LET f    == Last(split(target, "/"))
        mans == { q \in DOMAIN mp : /\ mp[q].name \o <<".">> \o mp[q].section = f
                                    /\ mp[q].lang = mp[self].lang }
    IN  IF Cardinality(mans) = 1 THEN mans
        ELSE { q \in mans : mp[q].package = mp[self].package }

\* the text a page stands for: its own raw text, or the raw text of the page
\* it is an alias of (nothing when the alias cannot be resolved)
EffectiveRaw(mp, p) ==
    LET r == resolve_so_link(mp, p)
    IN  IF r.kind = "ok" THEN Content[r.mp[p].converted_content_id].raw ELSE <<>>

\* the pages p includes
Includes(mp, p) ==
    LET raw == EffectiveRaw(mp, p)
    IN  UNION { TargetsOfRequest(mp, p, raw[i].target) :
                  i \in { j \in 1..Len(raw) : raw[j].kind = "so" } }

RECURSIVE IncludedFrom(_, _)
\* the pages reached from the set `seen` of pages by one or more inclusions
IncludedFrom(mp, seen) ==
    LET next == seen \cup UNION { Includes(mp, q) : q \in seen }
    IN  IF next = seen THEN seen ELSE IncludedFrom(mp, next)

Reaches(mp, p) == IncludedFrom(mp, Includes(mp, p))

OnCycle(mp, p) == p \in Reaches(mp, p)

CalledPreprocess ==
    /\ outcome.kind # "none"
    /\ outcome.op = "get_preprocessed_content"

\* C3 as stated: get_preprocessed_content on a page of an inclusion cycle ends
\* by raising SoelimError "inclusion cycle detected".
C3_RaisesInclusionCycle ==
    CalledPreprocess /\ OnCycle(ManPage, outcome.page) =>
        /\ outcome.kind = "SoelimError"
        /\ outcome.msg = "inclusion cycle detected"

\* C3 amended: get_preprocessed_content on a page of an inclusion cycle always
\* ends by raising SoelimError and never returns a text; the error is the
\* inclusion cycle unless the expansion first meets a page whose own alias
\* cannot be resolved (unknown or ambiguous target), or passes recursion level
\* 100, which takes more than 100 stored pages.
C3_CycleRaisesSoelimError ==
    CalledPreprocess /\ OnCycle(ManPage, outcome.page) =>
        /\ outcome.kind = "SoelimError"
        /\ \/ outcome.msg = "inclusion cycle detected"
           \/ /\ outcome.msg \in {"unknown target page", "ambiguous target page"}
              /\ \E q \in Reaches(ManPage, outcome.page) \cup {outcome.page} :
                    resolve_so_link(ManPage, q).kind = "SoelimError"
           \/ /\ outcome.msg = "recursion depth exceeded"
              /\ Cardinality(DOMAIN ManPage) > RecursionLimit

\* C3 witness: the call was made on a page of a cycle through another page
\* and raised the inclusion cycle
C3_Witness ==
    /\ CalledPreprocess
    /\ OnCycle(ManPage, outcome.page)
    /\ outcome.page \notin Includes(ManPage, outcome.page)
    /\ outcome.msg = "inclusion cycle detected"

CalledResolve ==
    /\ outcome.kind # "none"
    /\ outcome.op = "resolve_so_link"

\* C4 as stated: once a call has set converted_content of a page, a later
\* call on that page leaves the pointer as the first call set it, whatever
\* pages were added to or removed from the store in between.
C4_SecondCallSamePointer ==
    CalledResolve /\ recalled[outcome.page] =>
        ManPage[outcome.page].converted_content_id = first_ptr[outcome.page]

\* C4 amended: once a call has set converted_content of a page, a later call
\* on that page is a no-op and leaves the pointer as the first call set it,
\* whatever pages were added in between, and whatever pages were removed as
\* long as the Content row the pointer names was not deleted (deleting that
\* row resets the pointer to NULL, and the next call resolves again).
C4_SecondCallSamePointerWhileRowLives ==
    CalledResolve /\ recalled[outcome.page] /\ alive[outcome.page] =>
        /\ ManPage[outcome.page].converted_content_id = first_ptr[outcome.page]
        /\ outcome.before = first_ptr[outcome.page]
        /\ outcome.kind = "ok"

\* C4 witness: a second call on an alias page whose pointer names the row of
\* another page, with that row still stored
C4_Witness ==
    /\ CalledResolve
    /\ recalled[outcome.page]
    /\ alive[outcome.page]
    /\ ManPage[outcome.page].converted_content_id # ManPage[outcome.page].content_id

\* the lines of a raw text that are neither comments nor blank
Substance(raw) == SelectSeq(raw, LAMBDA l : l.kind \notin {"comment", "blank"})

\* the raw text is exactly one .so request once comments and surrounding
\* whitespace are removed
IsPureAlias(raw) == Len(Substance(raw)) = 1 /\ Substance(raw)[1].kind = "so"

\* the stored pages with the name and section of the last component of the
\* path, in the language of `self`
AliasMatches(mp, self, target) ==
    { q \in DOMAIN mp : /\ mp[q].name \o <<".">> \o mp[q].section
                             = Last(split(target, "/"))
                        /\ mp[q].lang = mp[self].lang }

\* C8: resolve_so_link on a page whose converted_content is not yet set: if
\* the raw text is exactly one .so request and exactly one stored page has the
\* name and section of the path's last component and the same language, the
\* pointer is set and stored to that page's content id; if the raw text is not
\* exactly one .so request, the pointer becomes the page's own content.
C8_AliasPointer ==
    CalledResolve /\ outcome.before = NULL =>
        LET p   == outcome.page
            raw == Content[ManPage[p].content_id].raw
        IN  /\ ( /\ IsPureAlias(raw)
                 /\ Cardinality(AliasMatches(ManPage, p, Substance(raw)[1].target)) = 1 )
               => /\ outcome.kind = "ok"
                  /\ \E q \in AliasMatches(ManPage, p, Substance(raw)[1].target) :
                        ManPage[p].converted_content_id = ManPage[q].content_id
            /\ ~IsPureAlias(raw)
               => /\ outcome.kind = "ok"
                  /\ ManPage[p].converted_content_id = ManPage[p].content_id

\* C8 witness: an alias with comments around its request was resolved to the
\* only page of that name, a page of another package
C8_Witness ==
    /\ CalledResolve
    /\ outcome.before = NULL
    /\ LET p   == outcome.page
           raw == Content[ManPage[p].content_id].raw
       IN  /\ IsPureAlias(raw)
           /\ Len(raw) > 1
           /\ \E q \in DOMAIN ManPage :
                 /\ q # p
                 /\ ManPage[q].package # ManPage[p].package
                 /\ AliasMatches(ManPage, p, Substance(raw)[1].target) = {q}
                 /\ ManPage[p].converted_content_id = ManPage[q].content_id

(***************************************************************************)
(* Name resolver (views/man_page.py, urls.py, utils/django.py): the        *)
(* address of a page, the route that splits it, the parse of               *)
(* name.section.lang against the store and the best match.                 *)
(***************************************************************************)
\* the characters of the model's texts in code point order
CodePoints ==
    << "-", ".", "/", "0","1","2","3","4","5","6","7","8","9",
       "a","b","c","d","e","f","g","h","i","j","k","l","m","n","o","p","q","r",
       "s","t","u","v","w","x","y","z" >>

ord(c) == CHOOSE i \in DOMAIN CodePoints : CodePoints[i] = c

RECURSIVE StrLess(_, _)
\* a < b for two str
StrLess(a, b) ==
    IF Len(b) = 0 THEN FALSE
    ELSE IF Len(a) = 0 THEN TRUE
    ELSE IF Head(a) = Head(b) THEN StrLess(Tail(a), Tail(b))
    ELSE ord(Head(a)) < ord(Head(b))

\* tuple.index(x), counted from 0
index(order, x) == (CHOOSE i \in DOMAIN order : order[i] = x) - 1

\* (int, str) < (int, str)
PairLess(k1, k2) == k1[1] < k2[1] \/ (k1[1] = k2[1] /\ StrLess(k1[2], k2[2]))

section_order ==
    << <<"1">>, <<"n">>, <<"l">>, <<"8">>, <<"6">>, <<"3">>, <<"0">>, <<"2">>,
       <<"5">>, <<"7">>, <<"4">>, <<"9">> >>

\* a section that starts with a ranked character keyed next to that character
_get_section_key_grouped(section) ==
    IF \E i \in DOMAIN section_order : section_order[i] = <<section[1]>>
    THEN <<index(section_order, <<section[1]>>), Tail(section)>>
    ELSE <<100, section>>

_get_section_key(section) ==
    IF \E i \in DOMAIN section_order : section_order[i] = section
    THEN <<index(section_order, section), <<>>>>
    ELSE IF \E i \in DOMAIN section_order : section_order[i] = <<section[1]>>
    THEN <<index(section_order, <<section[1]>>) + Len(section_order), Tail(section)>>
    ELSE <<100, section>>

core      == <<"c","o","r","e">>
extra     == <<"e","x","t","r","a">>
community == <<"c","o","m","m","u","n","i","t","y">>
multilib  == <<"m","u","l","t","i","l","i","b">>
testing   == <<"t","e","s","t","i","n","g">>

repo_order ==
    << core, extra, community, multilib, testing,
       community \o <<"-">> \o testing, multilib \o <<"-">> \o testing >>

_get_repo_key(repo) ==
    IF \E i \in DOMAIN repo_order : repo_order[i] = repo
    THEN <<index(repo_order, repo), <<>>>>
    ELSE <<Len(repo_order), repo>>

RECURSIVE int(_)
\* the number a run of digits stands for
int(digits) ==
    IF Len(digits) = 0 THEN 0
    ELSE 10 * int(SubSeq(digits, 1, Len(digits) - 1)) + (ord(Last(digits)) - ord("0"))

RECURSIVE cmp_segments(_, _)
\* the comparison of two dotted runs of numbers, segment by segment; the
\* version with segments left over is the newer one
cmp_segments(a, b) ==
    IF Len(a) = 0 /\ Len(b) = 0 THEN 0
    ELSE IF Len(a) = 0 THEN -1
    ELSE IF Len(b) = 0 THEN 1
    ELSE IF int(Head(a)) < int(Head(b)) THEN -1
    ELSE IF int(Head(a)) > int(Head(b)) THEN 1
    ELSE cmp_segments(Tail(a), Tail(b))

\* pyalpm.vercmp on versions written as numbers separated by dots
vercmp(a, b) == cmp_segments(split(a, "."), split(b, "."))

\* _get_pkgver_key that orders versions as texts, the greater first
pkgver_less_as_text(a, b) == StrLess(b, a)

\* _get_pkgver_key(a) < _get_pkgver_key(b): cmp_to_key of vercmp(b, a)
pkgver_less(a, b) == vercmp(b, a) < 0

pkgver_equal(a, b) == vercmp(b, a) = 0

\* sort_key(man) of _get_best_match; `section` names the section field
sort_key(pkgs, row, section) ==
    [sec_key    |-> _get_section_key(row[section]),
     repo_key   |-> _get_repo_key(pkgs[row.package].repo),
     pkgver_key |-> pkgs[row.package].version]

\* sort_key(a) == sort_key(b), as tuples compare
KeyEqual(k1, k2) ==
    /\ k1.sec_key = k2.sec_key
    /\ k1.repo_key = k2.repo_key
    /\ pkgver_equal(k1.pkgver_key, k2.pkgver_key)

\* sort_key(a) < sort_key(b), as tuples compare
KeyLess(k1, k2) ==
    IF k1.sec_key # k2.sec_key THEN PairLess(k1.sec_key, k2.sec_key)
    ELSE IF k1.repo_key # k2.repo_key THEN PairLess(k1.repo_key, k2.repo_key)
    ELSE pkgver_less(k1.pkgver_key, k2.pkgver_key)

RECURSIVE insert(_, _, _, _, _)
\* the place of x in an already sorted list: after every element that is not
\* greater (sorted is stable)
insert(pkgs, table, section, x, done) ==
    IF Len(done) = 0 THEN <<x>>
    ELSE IF KeyLess(sort_key(pkgs, table[x], section),
                    sort_key(pkgs, table[Head(done)], section))
         THEN <<x>> \o done
    ELSE <<Head(done)>> \o insert(pkgs, table, section, x, Tail(done))

RECURSIVE sorted(_, _, _, _)
\* sorted(queryset, key=sort_key) over the ids of the rows
sorted(pkgs, table, section, queryset) ==
    IF Len(queryset) = 0 THEN <<>>
    ELSE insert(pkgs, table, section, Last(queryset),
                sorted(pkgs, table, section, SubSeq(queryset, 1, Len(queryset) - 1)))

\* _get_best_match: the id of the first row of the sorted query, NULL for None
_get_best_match(pkgs, table, queryset, section) ==
    IF Len(queryset) = 0 THEN NULL
    ELSE sorted(pkgs, table, section, queryset)[1]

RECURSIVE InIdOrder(_)
\* the rows of a query in the order the database returns them, the order of
\* their ids
InIdOrder(ids) ==
    IF ids = {} THEN <<>>
    ELSE LET least == CHOOSE i \in ids : \A j \in ids : i <= j
         IN  <<least>> \o InIdOrder(ids \ {least})

\* `if text:` - neither None nor empty
Truthy(text) == text # None /\ text # <<>>

html == <<"h","t","m","l">>
txt  == <<"t","x","t">>
raw  == <<"r","a","w">>

\* the address of a page below the site root
reverse_man_url(repo, pkgname, man_name, man_section, man_lang, content_type) ==
    man \o <<"/">>
        \o (IF Truthy(repo) THEN repo \o <<"/">> ELSE <<>>)
        \o (IF Truthy(pkgname) THEN pkgname \o <<"/">> ELSE <<>>)
        \o man_name
        \o (IF Truthy(man_section) THEN <<".">> \o man_section ELSE <<>>)
        \o (IF Truthy(man_lang) THEN <<".">> \o man_lang ELSE <<>>)
        \o (IF Truthy(content_type) THEN <<".">> \o content_type ELSE <<>>)

\* [A-Za-z0-9@._+\-:\[\]] of name_section_lang and [A-Za-z0-9@._+\-] of repo
\* and pkgname
NslChars == SoPathChars \ {"/"}
ScopeChars == NslChars \ {":", "[", "]"}

Matches(text, chars) ==
    /\ Len(text) > 0
    /\ \A i \in 1..Len(text) : text[i] \in chars

NoMatch == [kind |-> "Resolver404"]

\* the man_page pattern of urlpatterns applied to a path: with three segments
\* after man/ the first is the repo, with two the first is the package; the
\* lazy name_section_lang gives up a trailing .html, .txt or .raw
resolve(address) ==
    LET segs == split(address, "/")
        n    == Len(segs)
        last == segs[n]
        dot  == rfind(last, ".")
        typed == dot > 1 /\ SubSeq(last, dot + 1, Len(last)) \in {html, txt, raw}
        name_section_lang == IF typed THEN SubSeq(last, 1, dot - 1) ELSE last
    IN  IF n < 2 \/ n > 4 \/ segs[1] # man THEN NoMatch
        ELSE IF ~Matches(name_section_lang, NslChars) THEN NoMatch
        ELSE IF \E i \in 2..(n - 1) : ~Matches(segs[i], ScopeChars) THEN NoMatch
        ELSE [kind |-> "match",
              repo |-> IF n = 4 THEN segs[2] ELSE None,
              pkgname |-> IF n >= 3 THEN segs[n - 1] ELSE None,
              name_section_lang |-> name_section_lang,
              url_output_type |-> IF typed THEN SubSeq(last, dot + 1, Len(last))
                                  ELSE None]

\* the three tables as the views read them
Tables(pkgs, mans, links) == [Package |-> pkgs, ManPage |-> mans, SymbolicLink |-> links]

_exists_name_section(db, name, section) ==
    \/ \E m \in DOMAIN db.ManPage :
          db.ManPage[m].name = name /\ startswith(db.ManPage[m].section, section)
    \/ \E l \in DOMAIN db.SymbolicLink :
          /\ db.SymbolicLink[l].from_name = name
          /\ startswith(db.SymbolicLink[l].from_section, section)

_exists_language(db, lang) ==
    \E m \in DOMAIN db.ManPage : db.ManPage[m].lang = lang

_exists_name_language(db, name, lang) ==
    \E m \in DOMAIN db.ManPage : db.ManPage[m].name = name /\ db.ManPage[m].lang = lang

_exists_name_section_language(db, name, section, lang) ==
    \/ \E m \in DOMAIN db.ManPage :
          /\ db.ManPage[m].name = name
          /\ startswith(db.ManPage[m].section, section)
          /\ db.ManPage[m].lang = lang
    \/ \E l \in DOMAIN db.SymbolicLink :
          /\ db.SymbolicLink[l].from_name = name
          /\ startswith(db.SymbolicLink[l].from_section, section)
          /\ db.SymbolicLink[l].lang = lang

Parsed(name, section, lang) == [name |-> name, section |-> section, lang |-> lang]

\* _parse_man_name_section_lang that tries the last part as a language first
_parse_lang_first(db, url_snippet, force_lang) ==
    LET parts == split(url_snippet, ".")
        n     == Len(parts)
        name  == join(SubSeq(parts, 1, n - 1), ".")
    IN  IF n = 1 THEN Parsed(url_snippet, None, None)
        ELSE IF _exists_name_language(db, name, parts[n])
        THEN Parsed(name, None, parts[n])
        ELSE IF _exists_name_section(db, name, parts[n])
        THEN Parsed(name, parts[n], None)
        ELSE Parsed(url_snippet, None, None)

\* _parse_man_name_section_lang that never takes a section before a language
_parse_without_section_lang(db, url_snippet, force_lang) ==
    LET parts == split(url_snippet, ".")
        n     == Len(parts)
        name  == join(SubSeq(parts, 1, n - 1), ".")
        lang  == IF force_lang # None THEN force_lang ELSE parts[n]
    IN  IF n = 1 THEN Parsed(url_snippet, None, None)
        ELSE IF _exists_name_section(db, name, parts[n])
        THEN Parsed(name, parts[n], None)
        ELSE IF force_lang # None /\ ~_exists_language(db, parts[n])
        THEN Parsed(url_snippet, None, None)
        ELSE IF _exists_name_language(db, name, lang)
        THEN Parsed(name, None, lang)
        ELSE Parsed(url_snippet, None, None)

_parse_man_name_section_lang(db, url_snippet, force_lang) ==
    LET parts == split(url_snippet, ".")
        n     == Len(parts)
        name  == join(SubSeq(parts, 1, n - 1), ".")
        name2 == join(SubSeq(parts, 1, n - 2), ".")
        lang  == IF force_lang # None THEN force_lang ELSE parts[n]
    IN  IF n = 1 THEN Parsed(url_snippet, None, None)
        ELSE IF _exists_name_section(db, name, parts[n])
        THEN Parsed(name, parts[n], None)
        ELSE IF n = 2
        THEN IF force_lang # None /\ ~_exists_language(db, parts[n])
             THEN Parsed(url_snippet, None, None)
             ELSE IF _exists_name_language(db, name, lang)
             THEN Parsed(name, None, lang)
             ELSE Parsed(url_snippet, None, None)
        ELSE IF _exists_language(db, parts[n])
        THEN IF _exists_name_section_language(db, name2, parts[n - 1], lang)
             THEN Parsed(name2, parts[n - 1], lang)
             ELSE IF _exists_name_language(db, name, lang)
             THEN Parsed(name, None, lang)
             ELSE Parsed(url_snippet, None, None)
        ELSE Parsed(url_snippet, None, None)

\* the rows of `table` that pass **_get_package_filter(repo, pkgname)
_get_package_filter(db, table, repo, pkgname) ==
    { r \in DOMAIN table :
        IF repo = None /\ pkgname = None THEN TRUE
        ELSE IF repo = None THEN db.Package[table[r].package].name = pkgname
        ELSE /\ db.Package[table[r].package].name = pkgname
             /\ db.Package[table[r].package].repo = repo }

\* the query of man_page and quick_search for the page
man_query(db, repo, pkgname, man_name, man_section, lang) ==
    { m \in _get_package_filter(db, db.ManPage, repo, pkgname) :
        /\ db.ManPage[m].name = man_name
        /\ db.ManPage[m].lang = lang
        /\ man_section # None => startswith(db.ManPage[m].section, man_section) }

get_symlink(db, repo, pkgname, man_name, man_section, lang) ==
    LET query == { l \in _get_package_filter(db, db.SymbolicLink, repo, pkgname) :
                     /\ db.SymbolicLink[l].from_name = man_name
                     /\ db.SymbolicLink[l].lang = lang
                     /\ man_section # None =>
                           startswith(db.SymbolicLink[l].from_section, man_section) }
    IN  _get_best_match(db.Package, db.SymbolicLink, InIdOrder(query), "from_section")

\* what a view answers: the status, the address of a redirect, the page
\* served, and the parse, the query and the best match it went through
HttpResponse(status, location, parse, query, db_man) ==
    [kind |-> "response", status |-> status, location |-> location,
     parsed |-> parse, query |-> query, db_man |-> db_man]

\* try_redirect: the address to redirect to, None for no redirect
\* try_redirect that puts the default language in place of the parsed one
try_redirect_same_fields(db, repo, pkgname, man_name, man_section, lang, output_type, name_section_lang) ==
    LET symlink == get_symlink(db, repo, pkgname, man_name, man_section, lang)
    IN  IF symlink # NULL
        THEN reverse_man_url(<<>>, <<>>, db.SymbolicLink[symlink].to_name,
                             db.SymbolicLink[symlink].to_section,
                             db.SymbolicLink[symlink].lang, output_type)
        ELSE IF lang # en
        THEN reverse_man_url(repo, pkgname, man_name, man_section, en, output_type)
        ELSE None

try_redirect(db, repo, pkgname, man_name, man_section, lang, output_type, name_section_lang) ==
    LET symlink == get_symlink(db, repo, pkgname, man_name, man_section, lang)
        reparse == _parse_man_name_section_lang(db, name_section_lang, en)
    IN  IF symlink # NULL
        THEN reverse_man_url(<<>>, <<>>, db.SymbolicLink[symlink].to_name,
                             db.SymbolicLink[symlink].to_section,
                             db.SymbolicLink[symlink].lang, output_type)
        ELSE IF /\ reparse.name # man_name \/ reparse.section # man_section
                /\ reparse.lang = en
        THEN reverse_man_url(repo, pkgname, reparse.name, reparse.section, en,
                             output_type)
        ELSE None

\* the man_page view up to the choice of the page to serve
man_page(db, repo, pkgname, name_section_lang, url_output_type) ==
    IF repo # None /\ pkgname = None
    THEN HttpResponse(500, None, Nothing, {}, NULL)
    ELSE IF ~Truthy(name_section_lang)
    THEN HttpResponse(400, None, Nothing, {}, NULL)
    ELSE
    LET parse       == _parse_man_name_section_lang(db, name_section_lang, None)
        man_name    == parse.name
        man_section == parse.section
        url_lang    == parse.lang
        lang        == IF Truthy(url_lang) THEN url_lang ELSE en
        serve_output_type == IF Truthy(url_output_type) THEN url_output_type ELSE html
        query       == man_query(db, repo, pkgname, man_name, man_section, lang)
        db_man      == _get_best_match(db.Package, db.ManPage, InIdOrder(query),
                                       "section")
        redirect    == try_redirect(db, repo, pkgname, man_name, man_section, lang,
                                    url_output_type, name_section_lang)
        db_symlink  == get_symlink(db, repo, pkgname, man_name, man_section, lang)
    IN  IF serve_output_type \notin {html, txt, raw}
        THEN HttpResponse(400, None, parse, {}, NULL)
        ELSE IF db_man = NULL
        THEN IF redirect # None
             THEN HttpResponse(302, redirect, parse, query, NULL)
             ELSE HttpResponse(404, None, parse, query, NULL)
        ELSE IF man_section # db.ManPage[db_man].section
        THEN IF /\ db_symlink # NULL
                /\ PairLess(_get_section_key(db.SymbolicLink[db_symlink].from_section),
                            _get_section_key(db.ManPage[db_man].section))
             THEN HttpResponse(302,
                      reverse_man_url(<<>>, <<>>, db.SymbolicLink[db_symlink].to_name,
                                      db.SymbolicLink[db_symlink].to_section,
                                      db.SymbolicLink[db_symlink].lang,
                                      url_output_type),
                      parse, query, db_man)
             ELSE HttpResponse(302,
                      reverse_man_url(repo, pkgname, man_name,
                                      db.ManPage[db_man].section, url_lang,
                                      url_output_type),
                      parse, query, db_man)
        ELSE HttpResponse(200, None, parse, query, db_man)

(***************************************************************************)
(* The store the name resolver reads and the requests it answers.  A page  *)
(* or a template builds the address of a stored page, or a visitor types   *)
(* one; the route splits it; the view answers.                             *)
(***************************************************************************)
MaxPages == 2

de == <<"d","e">>

\* a stored page: the key drawn for it, its own Content row, nothing converted
PageRow(id, key) ==
    [package |-> key.package, name |-> key.name, section |-> key.section,
     lang |-> key.lang, content_id |-> id, converted_content_id |-> NULL]

\* the ManPage tables of n rows over the keys, unique_together respected
PageTables(keys, n) ==
    { [i \in 1..n |-> PageRow(i, s[i])] :
        s \in { t \in [1..n -> keys] : \A i, j \in 1..n : i # j => t[i] # t[j] } }

\* names with and without a dot, sections of one and two characters and one
\* that reads like a language, two languages
ResolveKeys ==
    [package : {1, 2},
     name    : { <<"f">>, <<"f",".","1">> },
     section : { <<"1">>, <<"1","p">>, de },
     lang    : { en, de }]

ResolvePackages ==
    << [repo |-> core,  name |-> <<"a">>, version |-> <<"1",".","9">>],
       [repo |-> extra, name |-> <<"b">>, version |-> <<"1",".","1","0">>] >>

ResolveLinks ==
    { [package |-> 1, lang |-> en, from_section |-> <<"1">>, from_name |-> <<"f">>,
       to_section |-> <<"1","p">>, to_name |-> <<"f">>],
      [package |-> 2, lang |-> de, from_section |-> <<"1">>, from_name |-> <<"f">>,
       to_section |-> <<"1","p">>, to_name |-> <<"f">>] }

\* one name in one language, shipped by two packages of any repositories and
\* versions in a section each
Repos == { core, extra, community, multilib, testing, <<"a","u","r">> }

Versions == { <<"1",".","9">>, <<"1",".","1","0">> }

MatchPackages ==
    { pk \in [1..2 -> [repo : Repos, name : { <<"a">>, <<"b">> }, version : Versions]] :
        /\ pk[1].name = <<"a">>
        /\ pk[1].repo = pk[2].repo => pk[1].name # pk[2].name }

\* ranked sections, sections that start with a ranked character, and sections
\* that do not
MatchSections ==
    { <<"1">>, <<"8">>, <<"1","p">>, <<"3","p">>, <<"x">>, <<"y">> }

MatchTables ==
    { [i \in 1..2 |-> PageRow(i, [package |-> i, name |-> <<"f">>,
                                  section |-> s[i], lang |-> en])] :
        s \in [1..2 -> MatchSections] }

\* what visitors type after the site root
TypedUrls ==
    { man \o <<"/">> \o s :
        s \in { <<"f">>, <<"f",".","1">>, <<"f",".","d","e">>,
                <<"f",".","1",".","d","e">>, <<"f",".","1",".","1",".","d","e">>,
                <<"f",".","x">>, <<"f",".","3">>,
                <<"a","/","f",".","1">>, <<"a","/","f",".","d","e">>,
                <<"a","/","b","/","c","/","f">> } }

InitResolve ==
    /\ Package = ResolvePackages
    /\ \E n \in 0..MaxPages : ManPage \in PageTables(ResolveKeys, n)
    /\ Content = [c \in DOMAIN ManPage |-> [raw |-> <<TextLine>>]]
    /\ SymbolicLink \in { <<>> } \cup { <<l>> : l \in ResolveLinks }
    /\ WebFresh
    /\ SoQuiet
    /\ PathIdle
    /\ SyncIdle

InitMatch ==
    /\ Package \in MatchPackages
    /\ ManPage \in MatchTables
    /\ Content = [c \in DOMAIN ManPage |-> [raw |-> <<TextLine>>]]
    /\ SymbolicLink = <<>>
    /\ WebFresh
    /\ SoQuiet
    /\ PathIdle
    /\ SyncIdle

\* a listing or a page links to the stored page p, within the scope of its
\* package or without a scope
Link(p, scoped, content_type) ==
    /\ url = <<>>
    /\ p \in DOMAIN ManPage
    /\ url' = reverse_man_url(
                 IF scoped THEN Package[ManPage[p].package].repo ELSE None,
                 IF scoped THEN Package[ManPage[p].package].name ELSE None,
                 ManPage[p].name, ManPage[p].section, ManPage[p].lang, content_type)
    /\ linked' = p
    /\ UNCHANGED <<Package, SymbolicLink, trail, kwargs, response, pathVars, soVars, syncVars>>

\* a visitor types an address
Type(u) ==
    /\ url = <<>>
    /\ url' = u
    /\ UNCHANGED <<Package, SymbolicLink, trail, linked, kwargs, response, pathVars, soVars, syncVars>>

\* the URL resolver matches the path against the man_page pattern
Route ==
    /\ url # <<>>
    /\ kwargs = Nothing
    /\ kwargs' = resolve(url)
    /\ UNCHANGED <<Package, SymbolicLink, trail, url, linked, response, pathVars, soVars, syncVars>>

\* the man_page view answers the request
ManPageView ==
    /\ kwargs.kind = "match"
    /\ response = Nothing
    /\ \E r \in { man_page(Tables(Package, ManPage, SymbolicLink), kwargs.repo,
                           kwargs.pkgname, kwargs.name_section_lang,
                           kwargs.url_output_type) } :
          response' = r
    /\ UNCHANGED <<Package, SymbolicLink, trail, url, linked, kwargs, pathVars, soVars, syncVars>>

NextWeb ==
    \/ \E p \in 1..MaxPages : \E scoped \in BOOLEAN :
          \E content_type \in {None, txt} : Link(p, scoped, content_type)
    \/ \E u \in TypedUrls : Type(u)
    \/ Route
    \/ ManPageView

SpecResolve == InitResolve /\ [][NextWeb]_vars

SpecMatch == InitMatch /\ [][NextWeb]_vars

(***************************************************************************)
(* Claims about the name resolver                                          *)
(***************************************************************************)
\* the view has parsed the snippet and looked for the page
Answered == response.kind = "response" /\ response.status \in {200, 302, 404}

\* the address was built for the stored page `linked` within the scope of
\* its package, and the view has answered it
AnsweredScopedLink ==
    /\ Answered
    /\ linked # NULL
    /\ kwargs.repo = Package[ManPage[linked].package].repo
    /\ kwargs.pkgname = Package[ManPage[linked].package].name

\* C2: the address reverse_man_url builds for a stored page p with its repo
\* and package, resolved again under that scope, is parsed into the name,
\* section and language of p, and the best match of the scoped query is p.
C2_RoundTrip ==
    AnsweredScopedLink =>
        /\ response.parsed = Parsed(ManPage[linked].name, ManPage[linked].section,
                                    ManPage[linked].lang)
        /\ response.db_man = linked

\* the rows p and q are candidates of the answered request with the same
\* name, section and language, from different packages
RivalCandidates(p, q) ==
    /\ p \in response.query
    /\ q \in response.query
    /\ ManPage[p].name = ManPage[q].name
    /\ ManPage[p].section = ManPage[q].section
    /\ ManPage[p].lang = ManPage[q].lang
    /\ ManPage[p].package # ManPage[q].package

\* C5: two candidates with the same (name, section, lang) from different
\* packages never have equal best-match sort keys.
C5_NoTies ==
    Answered =>
        \A p, q \in DOMAIN ManPage :
            RivalCandidates(p, q) =>
                ~KeyEqual(sort_key(Package, ManPage[p], "section"),
                          sort_key(Package, ManPage[q], "section"))

\* the repository priority the order names: core, extra, community, multilib,
\* then the rest
NamedRepoRank(repo) ==
    IF repo = core THEN 0
    ELSE IF repo = extra THEN 1
    ELSE IF repo = community THEN 2
    ELSE IF repo = multilib THEN 3
    ELSE 4

\* row q comes strictly before row p: by section rank, then by repository
\* priority, then, within one repository, by the newer version
Precedes(q, p) ==
    LET sq == _get_section_key(ManPage[q].section)
        sp == _get_section_key(ManPage[p].section)
        rq == Package[ManPage[q].package].repo
        rp == Package[ManPage[p].package].repo
    IN  \/ PairLess(sq, sp)
        \/ /\ sq = sp
           /\ NamedRepoRank(rq) < NamedRepoRank(rp)
        \/ /\ sq = sp
           /\ rq = rp
           /\ vercmp(Package[ManPage[q].package].version,
                     Package[ManPage[p].package].version) > 0

\* C6: the best match is a candidate that no other candidate precedes in the
\* order (section rank, repository priority core < extra < community <
\* multilib < others, newer version first by vercmp); with equal section and
\* version a candidate in core wins over one in extra; no candidates, no match.
C6_BestMatchIsMinimal ==
    Answered =>
        /\ response.query = {} => response.db_man = NULL
        /\ response.query # {} =>
              /\ response.db_man \in response.query
              /\ \A q \in response.query : ~Precedes(q, response.db_man)
        /\ \A p, q \in response.query :
              ( /\ ManPage[p].section = ManPage[q].section
                /\ vercmp(Package[ManPage[p].package].version,
                          Package[ManPage[q].package].version) = 0
                /\ Package[ManPage[p].package].repo = core
                /\ Package[ManPage[q].package].repo = extra )
              => response.db_man = p

\* C6 witness: of two candidates of one section and one repository the second
\* row, of version 1.10, was chosen over the first, of version 1.9
C6_Witness ==
    /\ Answered
    /\ response.query = {1, 2}
    /\ response.db_man = 2
    /\ ManPage[1].section = ManPage[2].section
    /\ Package[1].repo = Package[2].repo
    /\ Package[1].version = <<"1",".","9">>
    /\ Package[2].version = <<"1",".","1","0">>

\* a page or a symbolic link source named `name` whose section starts with
\* `last` exists
SectionKnown(name, last) ==
    \/ \E m \in DOMAIN ManPage :
          ManPage[m].name = name /\ startswith(ManPage[m].section, last)
    \/ \E l \in DOMAIN SymbolicLink :
          /\ SymbolicLink[l].from_name = name
          /\ startswith(SymbolicLink[l].from_section, last)

\* C7: for a snippet with a dot, cut at its last dot into name and last: if a
\* page or symbolic link source named name has a section starting with last,
\* the parse is (name, last, unset), also when last is a known language; for
\* a snippet with one dot where there is no such section and no page of that
\* name in language last, the parse is (snippet, unset, unset).
C7_SectionBindsFirst ==
    Answered =>
        LET snippet == kwargs.name_section_lang
            dot     == rfind(snippet, ".")
            name    == SubSeq(snippet, 1, dot - 1)
            last    == SubSeq(snippet, dot + 1, Len(snippet))
        IN  dot > 0 =>
              /\ SectionKnown(name, last) =>
                    response.parsed = Parsed(name, last, None)
              /\ ( /\ find(snippet, ".") = dot
                   /\ ~SectionKnown(name, last)
                   /\ ~\E m \in DOMAIN ManPage :
                          ManPage[m].name = name /\ ManPage[m].lang = last )
                 => response.parsed = Parsed(snippet, None, None)

\* C7 witness: the last segment is the section of a page of that name and
\* also the language of a page of that name
C7_Witness ==
    /\ Answered
    /\ LET snippet == kwargs.name_section_lang
           dot     == rfind(snippet, ".")
           name    == SubSeq(snippet, 1, dot - 1)
           last    == SubSeq(snippet, dot + 1, Len(snippet))
       IN  /\ dot > 0
           /\ SectionKnown(name, last)
           /\ \E m \in DOMAIN ManPage : ManPage[m].name = name /\ ManPage[m].lang = last
           /\ response.parsed = Parsed(name, last, None)


(***************************************************************************)
(* Sync run (management/commands/man_update.py): update_packages,          *)
(* update_man_pages and the transaction of do_update around them.          *)
(***************************************************************************)
\* the four tables, as one connection sees them
Db(pkgs, mans, contents, links) ==
    [Package |-> pkgs, ManPage |-> mans, Content |-> contents, SymbolicLink |-> links]

\* the id an AutoField gives the next row of a table
NextId(table) ==
    IF DOMAIN table = {} THEN 1
    ELSE 1 + CHOOSE i \in DOMAIN table : \A j \in DOMAIN table : j <= i

\* Model().save() of a new row
Insert(table, row) == table @@ (NextId(table) :> row)

\* .delete() of the rows `ids`
Delete(table, ids) == [i \in DOMAIN table \ ids |-> table[i]]

\* an option that was not given on the command line
NotGiven == {None}

\* a round that takes any other version on the mirror for an update
update_one_on_any_change(pkgs, pkg, force, updated_pkgs) ==
    LET rows == { i \in DOMAIN pkgs : pkgs[i].repo = pkg.repo /\ pkgs[i].name = pkg.name }
        db_package == CHOOSE i \in rows : TRUE
    IN  IF rows = {}
        THEN [Package |-> Insert(pkgs, [repo |-> pkg.repo, name |-> pkg.name,
                                        version |-> pkg.version,
                                        description |-> pkg.desc]),
              updated_pkgs |-> Append(updated_pkgs, pkg)]
        ELSE IF vercmp(pkgs[db_package].version, pkg.version) # 0 \/ force
        THEN [Package |-> [pkgs EXCEPT ![db_package].version = pkg.version,
                                       ![db_package].description = pkg.desc],
              updated_pkgs |-> Append(updated_pkgs, pkg)]
        ELSE [Package |-> pkgs, updated_pkgs |-> updated_pkgs]

\* one round of the inner loop of update_packages: a new package is stored,
\* a stored one is updated when the mirror's version is newer or the update
\* is forced, and is left as it is otherwise
update_one(pkgs, pkg, force, updated_pkgs) ==
    LET rows == { i \in DOMAIN pkgs : pkgs[i].repo = pkg.repo /\ pkgs[i].name = pkg.name }
        db_package == CHOOSE i \in rows : TRUE
    IN  IF rows = {}
        THEN [Package |-> Insert(pkgs, [repo |-> pkg.repo, name |-> pkg.name,
                                        version |-> pkg.version,
                                        description |-> pkg.desc]),
              updated_pkgs |-> Append(updated_pkgs, pkg)]
        ELSE IF vercmp(pkgs[db_package].version, pkg.version) = -1 \/ force
        THEN [Package |-> [pkgs EXCEPT ![db_package].version = pkg.version,
                                       ![db_package].description = pkg.desc],
              updated_pkgs |-> Append(updated_pkgs, pkg)]
        ELSE [Package |-> pkgs, updated_pkgs |-> updated_pkgs]

RECURSIVE update_each(_, _, _, _, _)
\* the loops of update_packages over the repositories and their packages
update_each(pkgs, pkgcache, force, only_repos, updated_pkgs) ==
    IF Len(pkgcache) = 0 THEN [Package |-> pkgs, updated_pkgs |-> updated_pkgs]
    ELSE CHOOSE res \in
           { update_each(r.Package, rest, force, only_repos, r.updated_pkgs) :
               r \in { IF only_repos # NotGiven /\ Head(pkgcache).repo \notin only_repos
                       THEN [Package |-> pkgs, updated_pkgs |-> updated_pkgs]
                       ELSE update_one(pkgs, Head(pkgcache), force, updated_pkgs) },
               rest \in { Tail(pkgcache) } } : TRUE

\* finder.pkg_exists: the repository is looked up first
pkg_exists(finder, repo, pkgname) ==
    IF repo \notin finder.repos THEN "IndexError"
    ELSE IF \E k \in DOMAIN finder.pkgcache :
               finder.pkgcache[k].repo = repo /\ finder.pkgcache[k].name = pkgname
    THEN "True" ELSE "False"

\* Package.objects.order_by("repo").order_by("name"): the last order_by
\* stands, rows of one name come in id order
first_by_name(pkgs, ids) ==
    CHOOSE i \in ids : \A j \in ids :
        \/ StrLess(pkgs[i].name, pkgs[j].name)
        \/ pkgs[i].name = pkgs[j].name /\ i <= j

\* a delete that takes the Package row and leaves the rows that name it
delete_package_row_only(db, id) ==
    [db EXCEPT !.Package = Delete(db.Package, {id})]

\* Package.objects.filter(...).delete(): the ManPage and SymbolicLink rows of
\* the package go with it (on_delete=CASCADE)
delete_package(db, id) ==
    [db EXCEPT !.Package = Delete(db.Package, {id}),
               !.ManPage = Delete(db.ManPage,
                              { m \in DOMAIN db.ManPage : db.ManPage[m].package = id }),
               !.SymbolicLink = Delete(db.SymbolicLink,
                              { l \in DOMAIN db.SymbolicLink :
                                  db.SymbolicLink[l].package = id })]

RECURSIVE delete_old(_, _, _)
\* the loop that deletes the packages the mirror no longer has
delete_old(db, finder, ids) ==
    IF ids = {} THEN [kind |-> "ok", db |-> db]
    ELSE CHOOSE res \in
           { IF r.e = "IndexError" THEN [kind |-> "IndexError", db |-> db]
             ELSE delete_old(r.db, finder, r.ids) :
             r \in { [e   |-> pkg_exists(finder, db.Package[i].repo, db.Package[i].name),
                      db  |-> IF pkg_exists(finder, db.Package[i].repo,
                                            db.Package[i].name) = "False"
                              THEN delete_package(db, i) ELSE db,
                      ids |-> ids \ {i}] :
                     i \in { first_by_name(db.Package, ids) } } } : TRUE

\* update_packages: the tables after it and the packages it marked updated,
\* or the exception it raised
update_packages(db, finder, force, only_repos) ==
    CHOOSE res \in UNION
      { { [kind |-> d.kind, db |-> d.db, updated_pkgs |-> r.updated_pkgs] :
            d \in { delete_old([db EXCEPT !.Package = r.Package], finder,
                               DOMAIN r.Package) } } :
        r \in { update_each(db.Package, finder.pkgcache, force, only_repos, <<>>) } } :
      TRUE

\* get_man_contents that yields every member where the listing has it
get_man_contents_in_listing_order(members) ==
    [i \in DOMAIN members |->
        IF members[i].t = "file" THEN [members[i] EXCEPT !.v1 = StripGz(@)]
        ELSE [members[i] EXCEPT !.v1 = StripGz(@), !.v2 = StripGz(@)]]

\* the members of a package archive that finder.get_man_contents yields:
\* files and symbolic links in archive order, hard links after them, every
\* path without its .gz
get_man_contents(members) ==
    LET bare(m)  == IF m.t = "file" THEN [m EXCEPT !.v1 = StripGz(m.v1)]
                    ELSE [m EXCEPT !.v1 = StripGz(m.v1), !.v2 = StripGz(m.v2)]
        yielded  == [i \in DOMAIN members |-> bare(members[i])]
    IN  SelectSeq(yielded, LAMBDA m : m.t # "hardlink")
            \o SelectSeq(yielded, LAMBDA m : m.t = "hardlink")

\* parse_man_path with the encoding hint dropped from the language
parse_key(p) ==
    CHOOSE res \in
      { IF r.kind = "ok" THEN [r EXCEPT !.lang = drop_encoding(r.lang)] ELSE r :
        r \in { parse_man_path(p) } } : TRUE

RECURSIVE collapse(_, _)
\* os.path.normpath on the segments of a relative path
collapse(segs, done) ==
    IF Len(segs) = 0 THEN done
    ELSE CHOOSE res \in
           { collapse(rest, kept) :
               rest \in { Tail(segs) },
               kept \in { IF Head(segs) \in { <<>>, <<".">> } THEN done
                          ELSE IF /\ Head(segs) = <<".", ".">>
                                  /\ Len(done) > 0
                                  /\ Last(done) # <<".", ".">>
                          THEN SubSeq(done, 1, Len(done) - 1)
                          ELSE Append(done, Head(segs)) } } : TRUE

\* the target of a symbolic link as a path from the archive root
link_target(source, target) ==
    IF Len(target) > 0 /\ Head(target) = "/" THEN Tail(target)
    ELSE LET parent == SubSeq(PurePathParts(source), 1, Len(PurePathParts(source)) - 1)
         IN  join(collapse(parent \o split(target, "/"), <<>>), "/")

\* a lookup that never finds the stored row
ManPageOf_finds_nothing(db, pkg_id, key) == {}

\* the rows of a table with the given key of one package
ManPageOf(db, pkg_id, key) ==
    { m \in DOMAIN db.ManPage :
        /\ db.ManPage[m].package = pkg_id
        /\ db.ManPage[m].name = key.name
        /\ db.ManPage[m].section = key.section
        /\ db.ManPage[m].lang = key.lang }

Key(name, section, lang) == [name |-> name, section |-> section, lang |-> lang]

\* what one entry leaves: the tables, the keys seen, the pages counted, or the
\* exception it raised
Went(db, keys, n) == [kind |-> "ok", db |-> db, keys |-> keys, updated_pages |-> n]

Raised(what, db) == [kind |-> what, db |-> db, keys |-> {}, updated_pages |-> 0]

\* ManPage.full_clean(): no blank text field, and ManPage.clean
full_clean(row) ==
    /\ row.name # <<>>
    /\ row.section # <<>>
    /\ row.lang # <<>>
    /\ find(row.section, ".") = 0
    /\ find(row.lang, ".") = 0

\* SymbolicLink.full_clean(): no blank text field, and SymbolicLink.clean
full_clean_link(row) ==
    /\ row.lang # <<>>
    /\ row.from_section # <<>> /\ row.from_name # <<>>
    /\ row.to_section # <<>> /\ row.to_name # <<>>
    /\ ~(row.from_section = row.to_section /\ row.from_name = row.to_name)
    /\ find(row.lang, ".") = 0

\* a "file" entry whose path was parsed into s: the page is stored or
\* updated, its raw Content replaced and the derived forms unset
file_entry(db, pkg_id, s, content, keys, n) ==
    LET key    == Key(s.name, s.section, s.lang)
        fresh  == [raw |-> content, html |-> None, txt |-> None]
    IN  IF s.kind = "UnknownManPath" THEN Went(db, keys, n)
        ELSE IF s.kind # "ok" THEN Raised(s.kind, db)
        ELSE IF content = <<>> THEN Went(db, keys, n)
        ELSE IF key \in keys THEN Went(db, keys, n)
        ELSE CHOOSE res \in
          { IF found # {}
            THEN Went([db EXCEPT
                         !.Content[db.ManPage[CHOOSE m \in found : TRUE].content_id]
                             = fresh],
                      keys \cup {key}, n + 1)
            ELSE IF ~full_clean(s)
            THEN Raised("ValidationError",
                        [db EXCEPT !.Content = Insert(db.Content, fresh)])
            ELSE Went([db EXCEPT
                         !.Content = Insert(db.Content, fresh),
                         !.ManPage = Insert(db.ManPage,
                            [package |-> pkg_id, name |-> s.name,
                             section |-> s.section, lang |-> s.lang,
                             content_id |-> NextId(db.Content),
                             converted_content_id |-> NULL])],
                      keys \cup {key}, n + 1) :
            found \in { ManPageOf(db, pkg_id, key) } } : TRUE

\* a hardlink branch that does not look at the keys seen in the pass
hardlink_entry_over_seen_key(db, pkg_id, s, t, keys, n) ==
    LET key == Key(s.name, s.section, s.lang)
    IN  IF s.kind # "ok" \/ t.kind # "ok" THEN Went(db, keys, n)
        ELSE IF Key(t.name, t.section, t.lang) = key THEN Went(db, keys, n)
        ELSE CHOOSE res \in
          { IF man_target = {} THEN Raised("ManPage.DoesNotExist", db)
            ELSE IF man_source # {}
            THEN Went([db EXCEPT
                         !.ManPage[CHOOSE m \in man_source : TRUE].content_id =
                             db.ManPage[CHOOSE m \in man_target : TRUE].content_id],
                      keys \cup {key}, n + 1)
            ELSE Went([db EXCEPT !.ManPage = Insert(db.ManPage,
                         [package |-> pkg_id, name |-> s.name,
                          section |-> s.section, lang |-> s.lang,
                          content_id |->
                             db.ManPage[CHOOSE m \in man_target : TRUE].content_id,
                          converted_content_id |-> NULL])],
                      keys \cup {key}, n + 1) :
            man_target \in { ManPageOf(db, pkg_id, Key(t.name, t.section, t.lang)) },
            man_source \in { ManPageOf(db, pkg_id, key) } } : TRUE

\* a "hardlink" entry whose source and target were parsed into s and t: the
\* source page shares the Content of the target page, which must be stored
hardlink_entry(db, pkg_id, s, t, keys, n) ==
    LET key == Key(s.name, s.section, s.lang)
    IN  IF s.kind = "UnknownManPath" THEN Went(db, keys, n)
        ELSE IF s.kind # "ok" THEN Raised(s.kind, db)
        ELSE IF t.kind = "UnknownManPath" THEN Went(db, keys, n)
        ELSE IF t.kind # "ok" THEN Raised(t.kind, db)
        ELSE IF Key(t.name, t.section, t.lang) = key THEN Went(db, keys, n)
        ELSE IF key \in keys THEN Went(db, keys, n)
        ELSE CHOOSE res \in
          { IF man_target = {} THEN Raised("ManPage.DoesNotExist", db)
            ELSE IF ~full_clean(s) THEN Raised("ValidationError", db)
            ELSE IF man_source # {}
            THEN Went([db EXCEPT
                         !.ManPage[CHOOSE m \in man_source : TRUE].content_id =
                             db.ManPage[CHOOSE m \in man_target : TRUE].content_id],
                      keys \cup {key}, n + 1)
            ELSE Went([db EXCEPT !.ManPage = Insert(db.ManPage,
                         [package |-> pkg_id, name |-> s.name,
                          section |-> s.section, lang |-> s.lang,
                          content_id |->
                             db.ManPage[CHOOSE m \in man_target : TRUE].content_id,
                          converted_content_id |-> NULL])],
                      keys \cup {key}, n + 1) :
            man_target \in { ManPageOf(db, pkg_id, Key(t.name, t.section, t.lang)) },
            man_source \in { ManPageOf(db, pkg_id, key) } } : TRUE

\* a symlink branch that stores the link whatever it points to
symlink_entry_unfiltered(db, pkg_id, s, t, keys, n) ==
    IF s.kind # "ok" \/ t.kind # "ok" THEN Went(db, keys, n)
    ELSE Went([db EXCEPT !.SymbolicLink = Insert(
                    Delete(db.SymbolicLink,
                           { l \in DOMAIN db.SymbolicLink :
                               /\ db.SymbolicLink[l].package = pkg_id
                               /\ db.SymbolicLink[l].lang = s.lang
                               /\ db.SymbolicLink[l].from_section = s.section
                               /\ db.SymbolicLink[l].from_name = s.name }),
                    [package |-> pkg_id, lang |-> s.lang,
                     from_section |-> s.section, from_name |-> s.name,
                     to_section |-> t.section, to_name |-> t.name])],
              keys, n)

\* a "symlink" entry whose source and normalised target were parsed into s
\* and t: the SymbolicLink row of the source is stored or updated
symlink_entry(db, pkg_id, s, t, keys, n) ==
    IF s.kind = "UnknownManPath" THEN Went(db, keys, n)
    ELSE IF s.kind # "ok" THEN Raised(s.kind, db)
    ELSE IF t.kind = "UnknownManPath" THEN Went(db, keys, n)
    ELSE IF t.kind # "ok" THEN Raised(t.kind, db)
    ELSE IF t.lang # s.lang THEN Went(db, keys, n)
    ELSE IF t.section = s.section /\ t.name = s.name THEN Went(db, keys, n)
    ELSE IF ~full_clean_link([lang |-> s.lang, from_section |-> s.section,
                              from_name |-> s.name, to_section |-> t.section,
                              to_name |-> t.name])
    THEN Raised("ValidationError", db)
    ELSE CHOOSE res \in
      { IF found # {}
        THEN Went([db EXCEPT !.SymbolicLink[CHOOSE l \in found : TRUE] =
                        [@ EXCEPT !.to_section = t.section, !.to_name = t.name]],
                  keys, n)
        ELSE Went([db EXCEPT !.SymbolicLink = Insert(db.SymbolicLink,
                        [package |-> pkg_id, lang |-> s.lang,
                         from_section |-> s.section, from_name |-> s.name,
                         to_section |-> t.section, to_name |-> t.name])],
                  keys, n) :
        found \in { { l \in DOMAIN db.SymbolicLink :
                        /\ db.SymbolicLink[l].package = pkg_id
                        /\ db.SymbolicLink[l].lang = s.lang
                        /\ db.SymbolicLink[l].from_section = s.section
                        /\ db.SymbolicLink[l].from_name = s.name } } } : TRUE

\* one entry that finder.get_man_contents yielded; its paths are parsed as
\* the branch of its type parses them
entry(db, pkg_id, e, keys, n) ==
    CHOOSE res \in
      { IF e.t = "file" THEN file_entry(db, pkg_id, s, e.v2, keys, n)
        ELSE IF e.t = "hardlink" THEN hardlink_entry(db, pkg_id, s, t, keys, n)
        ELSE IF e.t = "symlink" THEN symlink_entry(db, pkg_id, s, t, keys, n)
        ELSE Raised("NotImplementedError", db) :
        s \in { parse_key(e.v1) },
        t \in { IF e.t = "file" THEN Rejected
                ELSE parse_key(IF e.t = "symlink" THEN link_target(e.v1, e.v2)
                               ELSE e.v2) } } : TRUE

RECURSIVE entries_loop(_, _, _, _, _)
\* the loop over the entries of one package; an exception ends it with the
\* rows written so far
entries_loop(db, pkg_id, entries, keys, n) ==
    IF Len(entries) = 0 THEN Went(db, keys, n)
    ELSE CHOOSE res \in
           { IF r.kind # "ok" THEN r
             ELSE entries_loop(r.db, pkg_id, rest, r.keys, r.updated_pages) :
             r \in { entry(db, pkg_id, Head(entries), keys, n) },
             rest \in { Tail(entries) } } : TRUE

\* the loop body that takes an empty file listing for a package whose pages
\* are all gone
update_man_pages_of_empties(db, pkg, downloaded) ==
    LET db_pkg == CHOOSE i \in DOMAIN db.Package :
                     db.Package[i].repo = pkg.repo /\ db.Package[i].name = pkg.name
    IN  IF Len(pkg.members) = 0
        THEN Went([db EXCEPT !.ManPage =
                      Delete(db.ManPage, { m \in DOMAIN db.ManPage :
                                             db.ManPage[m].package = db_pkg })],
                  {}, 0)
        ELSE IF ~downloaded THEN Raised("Exception", db)
        ELSE entries_loop(db, db_pkg, get_man_contents(pkg.members), {}, 0)

\* the loop body without the deletion of the pages whose files are gone
update_man_pages_of_keeps_missing(db, pkg, downloaded) ==
    IF Len(pkg.members) = 0 THEN Went(db, {}, 0)
    ELSE IF ~downloaded THEN Raised("Exception", db)
    ELSE entries_loop(db,
                      CHOOSE i \in DOMAIN db.Package :
                          db.Package[i].repo = pkg.repo /\ db.Package[i].name = pkg.name,
                      get_man_contents(pkg.members), {}, 0)

\* the body of the loop of update_man_pages for one updated package: nothing
\* for a package without man files, an exception when its archive cannot be
\* downloaded, else its entries and the deletion of the pages not seen
update_man_pages_of(db, pkg, downloaded) ==
    LET db_pkg == CHOOSE i \in DOMAIN db.Package :
                     db.Package[i].repo = pkg.repo /\ db.Package[i].name = pkg.name
    IN  IF Len(pkg.members) = 0 THEN Went(db, {}, 0)
        ELSE IF ~downloaded THEN Raised("Exception", db)
        ELSE CHOOSE res \in
               { IF r.kind # "ok" THEN r
                 ELSE Went([r.db EXCEPT !.ManPage =
                              Delete(r.db.ManPage,
                                { m \in DOMAIN r.db.ManPage :
                                    /\ r.db.ManPage[m].package = db_pkg
                                    /\ Key(r.db.ManPage[m].name, r.db.ManPage[m].section,
                                           r.db.ManPage[m].lang) \notin r.keys })],
                           r.keys, r.updated_pages) :
                 r \in { entries_loop(db, db_pkg, get_man_contents(pkg.members),
                                      {}, 0) } } : TRUE

\* a run that leaves the Content table as it is
delete_unreferenced_never(db) == db

\* Content.objects.filter(manpage_content__isnull=True).delete()
delete_unreferenced(db) ==
    LET swept == DeleteUnreferenced(db.ManPage, db.Content)
    IN  [db EXCEPT !.ManPage = swept.ManPage, !.Content = swept.Content]

\* leaving `with transaction.atomic()` on an exception: what was written in
\* the block stays
rollback_keeps_writes(committed, written) == written

\* leaving `with transaction.atomic()` on an exception: the tables are the
\* committed ones again
rollback(committed, written) == committed

(***************************************************************************)
(* Mirrors the sync runs are given: two packages in two versions each, a   *)
(* package without manual pages, a package that left the mirror and a      *)
(* repository that left the configuration.                                 *)
(***************************************************************************)
T1 == <<".", "T", "H", " ", "1">>
T2 == <<".", "T", "H", " ", "2">>

man1(f) == MANDIR \o <<"m","a","n","1","/">> \o f
de_man1(f) == MANDIR \o <<"d","e","/","m","a","n","1","/">> \o f
ru_man1(f) == MANDIR \o <<"r","u","/","m","a","n","1","/">> \o f
koi8_man1(f) == MANDIR \o <<"r","u",".","K","O","I","8","-","R","/","m","a","n","1","/">> \o f

File(p, content)    == [t |-> "file", v1 |-> p, v2 |-> content]
Hardlink(p, target) == [t |-> "hardlink", v1 |-> p, v2 |-> target]
Symlink(p, target)  == [t |-> "symlink", v1 |-> p, v2 |-> target]

Pkg(repo, name, version, members) ==
    [repo |-> repo, name |-> name, version |-> version, desc |-> version,
     members |-> members]

a_1_9 == Pkg(core, <<"a">>, <<"1", ".", "9">>,
             << File(man1(<<"a",".","1",".","g","z">>), T1),
                File(MANDIR \o <<"r","u",".","K","O","I","8","-","R","/","m","a","n","1",
                                 "/","a",".","1">>, T1),
                Symlink(man1(<<"d",".","1">>), <<"a",".","1">>) >>)

a_1_10 == Pkg(core, <<"a">>, <<"1", ".", "1", "0">>,
              << Hardlink(man1(<<"b",".","1",".","g","z">>),
                          man1(<<"a",".","1",".","g","z">>)),
                 File(man1(<<"a",".","1",".","g","z">>), T2),
                 Symlink(man1(<<"c",".","1",".","g","z">>),
                         <<"a",".","1",".","g","z">>),
                 Symlink(man1(<<"d",".","1">>),
                         <<".",".","/","d","e","/","m","a","n","1","/","a",".","1">>),
                 Symlink(man1(<<"s",".","1",".","g","z">>), <<"s",".","1">>),
                 File(ru_man1(<<"a",".","1">>), T1),
                 Hardlink(koi8_man1(<<"a",".","1",".","g","z">>),
                          man1(<<"a",".","1",".","g","z">>)),
                 Hardlink(koi8_man1(<<"b",".","1">>), ru_man1(<<"b",".","1">>)) >>)

b_1_9 == Pkg(extra, <<"b">>, <<"1", ".", "9">>,
             << File(de_man1(<<"a",".","1">>), T1),
                File(MANDIR \o <<"R","E","A","D","M","E">>, T1) >>)

\* its hard link names a file that is empty and therefore not stored
b_1_10 == Pkg(extra, <<"b">>, <<"1", ".", "1", "0">>,
              << File(de_man1(<<"a",".","1">>), T2),
                 File(man1(<<"e",".","1">>), <<>>),
                 Hardlink(man1(<<"h",".","1">>), man1(<<"e",".","1">>)) >>)

c_1_9 == Pkg(extra, <<"c">>, <<"1", ".", "9">>, <<>>)

\* a 1.11 ships b.1 as a file of its own, no longer as a hard link to a.1
a_1_11 == Pkg(core, <<"a">>, <<"1", ".", "1", "1">>,
              << File(man1(<<"a",".","1",".","g","z">>), T1),
                 File(man1(<<"b",".","1",".","g","z">>), T2) >>)

\* b 1.11 ships no man file any more
b_1_11 == Pkg(extra, <<"b">>, <<"1", ".", "1", "1">>, <<>>)

\* a 1.9 again, with a description that was rewritten on the mirror
a_1_9_redescribed == [a_1_9 EXCEPT !.desc = <<"n", "e", "w">>]

Finder(repos, pkgcache) ==
    [repos |-> repos, pkgcache |-> pkgcache, cachedir |-> {}]

\* the name of the tarball of a package, "{}-{}-{}.pkg.tar.*" of
\* get_man_contents, for the one architecture there is
tarball(pkg) == <<pkg.name, pkg.version>>

\* finder.clear_pkgcache(), unless the tarballs are kept
clear_pkgcache(finder, keep_tarballs) ==
    IF keep_tarballs THEN finder ELSE [finder EXCEPT !.cachedir = {}]

Mirrors ==
    { Finder({core, extra}, <<a_1_9, b_1_9>>),
      Finder({core, extra}, <<a_1_9_redescribed, b_1_9>>),
      Finder({core, extra}, <<a_1_10, b_1_9, c_1_9>>),
      Finder({core, extra}, <<a_1_10, b_1_10>>),
      Finder({core, extra}, <<a_1_11, b_1_11>>),
      Finder({core, extra}, <<b_1_9>>),
      Finder({core}, <<a_1_10>>) }

OnlyRepos == { NotGiven, {core} }

OnlyPackages == { NotGiven, {<<"a">>} }

MaxRuns == 2

Committed == Db(Package, ManPage, Content, SymbolicLink)

(***************************************************************************)
(* Two sync processes on one database.  `with transaction.atomic()` is a   *)
(* transaction of the database at its default isolation level: a process   *)
(* reads the committed rows and its own writes, a row written by an open   *)
(* transaction makes the other wait for the end of it, and nothing else    *)
(* keeps two transactions from being open together (do_update takes no     *)
(* lock).                                                                  *)
(***************************************************************************)
\* the ids whose row is in one of the two tables only, or differs
differs(old, new) ==
    { i \in DOMAIN old \cup DOMAIN new :
        i \notin DOMAIN old \/ i \notin DOMAIN new \/ old[i] # new[i] }

\* the packages, by repository and name, of whose rows (the Package row, its
\* ManPage and SymbolicLink rows, the Content rows of its pages) `db` has
\* one among `pkgs`, `mans`, `links` and `contents`
owners(db, pkgs, mans, links, contents) ==
    { <<db.Package[p].repo, db.Package[p].name>> :
        p \in (pkgs \cap DOMAIN db.Package)
               \cup { db.ManPage[m].package : m \in mans \cap DOMAIN db.ManPage }
               \cup { db.SymbolicLink[l].package : l \in links \cap DOMAIN db.SymbolicLink }
               \cup { db.ManPage[m].package :
                        m \in { q \in DOMAIN db.ManPage :
                                  \/ db.ManPage[q].content_id \in contents
                                  \/ db.ManPage[q].converted_content_id \in contents } } }

\* the packages a transaction that began on `base` and made it `view` has
\* written rows of (and "Content" for Content rows that no page names)
touched(base, view) ==
    CHOOSE res \in
      { owners(base, pkgs, mans, links, contents)
          \cup owners(view, pkgs, mans, links, contents)
          \cup { <<"Content">> :
                   c \in { c \in contents :
                             \A db \in {base, view} : \A q \in DOMAIN db.ManPage :
                                 db.ManPage[q].content_id # c } } :
        pkgs \in { differs(base.Package, view.Package) },
        mans \in { differs(base.ManPage, view.ManPage) },
        links \in { differs(base.SymbolicLink, view.SymbolicLink) },
        contents \in { differs(base.Content, view.Content) } } : TRUE

\* the greatest id of a table
Top(table) ==
    IF DOMAIN table = {} THEN 0
    ELSE CHOOSE i \in DOMAIN table : \A j \in DOMAIN table : j <= i

\* the ids the rows inserted in `view` get when they are put into `onto`:
\* ids come from a sequence, so they are not the ids of rows of `onto`
shift(onto, base, view) ==
    IF (DOMAIN view \ DOMAIN base) \cap DOMAIN onto = {} THEN 0 ELSE Top(onto)

\* a reference to row `id` of `view`, in `onto`
moved(id, base, view, off) ==
    IF id \in DOMAIN view \ DOMAIN base THEN id + off ELSE id

\* one table of `onto` with the deletions, updates and insertions that made
\* `base` into `view`; fix(row) moves the references of a row
rebase_table(onto, base, view, off, fix(_)) ==
    [ i \in (DOMAIN onto \ (DOMAIN base \ DOMAIN view))
              \cup { j + off : j \in DOMAIN view \ DOMAIN base } |->
        IF i \notin DOMAIN onto THEN fix(view[i - off])
        ELSE IF i \in DOMAIN base /\ i \in DOMAIN view /\ base[i] # view[i]
             THEN fix(view[i])
        ELSE onto[i] ]

\* what a transaction that began on `base` and made it `view` sees once the
\* committed tables are `onto`: the committed rows and its own writes
rebase(onto, base, view) ==
    CHOOSE res \in
      { [Package |-> rebase_table(onto.Package, base.Package, view.Package, offP,
                                  LAMBDA row : row),
         Content |-> rebase_table(onto.Content, base.Content, view.Content, offC,
                                  LAMBDA row : row),
         ManPage |-> rebase_table(onto.ManPage, base.ManPage, view.ManPage, offM,
                       LAMBDA row :
                         [row EXCEPT
                            !.package = moved(@, base.Package, view.Package, offP),
                            !.content_id = moved(@, base.Content, view.Content, offC),
                            !.converted_content_id =
                                moved(@, base.Content, view.Content, offC)]),
         SymbolicLink |-> rebase_table(onto.SymbolicLink, base.SymbolicLink,
                                       view.SymbolicLink, offL,
                            LAMBDA row :
                              [row EXCEPT
                                 !.package = moved(@, base.Package, view.Package, offP)])] :
        offP \in { shift(onto.Package, base.Package, view.Package) },
        offC \in { shift(onto.Content, base.Content, view.Content) },
        offM \in { shift(onto.ManPage, base.ManPage, view.ManPage) },
        offL \in { shift(onto.SymbolicLink, base.SymbolicLink, view.SymbolicLink) } } : TRUE

\* the positions of a run inside `with transaction.atomic()`
InAtomic == {"update_packages", "update_man_pages", "commit", "raised"}

\* the writes that make the tables of the run `db` wait for the other
\* process: it has an open transaction that wrote rows of the same package
waits(db) ==
    /\ rival.run.pc \in InAtomic
    /\ touched(snapshot, db) \cap touched(rival.snapshot, rival.txn) # {}

InitSync ==
    /\ Package = <<>>
    /\ ManPage = <<>>
    /\ Content = <<>>
    /\ SymbolicLink = <<>>
    /\ SyncIdle
    /\ PathIdle
    /\ SoQuiet
    /\ WebFresh

\* do_update up to `with transaction.atomic()`: the finder is refreshed and
\* the transaction begins on the committed tables
DoUpdate(finder, force, only_repos, only_packages, keep_tarballs) ==
    /\ run.pc \in {"idle", "done", "failed"}
    /\ run.n + rival.run.n < MaxRuns
    /\ mirror' = [finder EXCEPT !.cachedir = mirror.cachedir]
    /\ snapshot' = Committed
    /\ txn' = Committed
    /\ run' = [pc |-> "update_packages", n |-> run.n + 1, force |-> force,
               only_repos |-> only_repos, only_packages |-> only_packages,
               keep_tarballs |-> keep_tarballs,
               updated_pkgs |-> <<>>, todo |-> <<>>, exc |-> "",
               listed |-> <<>>, yielded |-> <<>>,
               ingested |-> [repo |-> <<>>, name |-> <<>>], keys |-> {}]
    /\ UNCHANGED <<tables, rival, pathVars, soCalls, request>>

\* updated_pkgs = update_packages(finder, force=force, only_repos=only_repos)
\* and the choice of the packages whose pages are updated
UpdatePackages ==
    /\ run.pc = "update_packages"
    /\ \E r \in { update_packages(txn, mirror, run.force, run.only_repos) } :
         /\ ~waits(r.db)
         /\ txn' = r.db
         /\ run' = IF r.kind # "ok"
                   THEN [run EXCEPT !.pc = "raised", !.exc = r.kind]
                   ELSE [run EXCEPT
                            !.pc = "update_man_pages",
                            !.updated_pkgs = r.updated_pkgs,
                            !.todo = IF run.only_packages = NotGiven
                                     THEN r.updated_pkgs
                                     ELSE SelectSeq(r.updated_pkgs,
                                            LAMBDA p : p.name \in run.only_packages)]
    /\ UNCHANGED <<tables, mirror, snapshot, rival, pathVars, soCalls, request>>

\* one round of the loop of update_man_pages; the tarball of a package with
\* man files is in the cache directory, or _download_package puts it there,
\* or the download fails
UpdateManPages(downloaded) ==
    /\ run.pc = "update_man_pages"
    /\ Len(run.todo) > 0
    /\ \E got \in { downloaded \/ tarball(Head(run.todo)) \in mirror.cachedir },
          r \in { update_man_pages_of(txn, Head(run.todo),
                                      downloaded \/ tarball(Head(run.todo)) \in mirror.cachedir) } :
         /\ ~waits(r.db)
         /\ txn' = r.db
         /\ mirror' = IF got /\ Len(Head(run.todo).members) > 0
                      THEN [mirror EXCEPT !.cachedir = @ \cup {tarball(Head(run.todo))}]
                      ELSE mirror
         /\ \E y \in { IF got THEN get_man_contents(Head(run.todo).members)
                        ELSE <<>> } :
              run' = IF r.kind # "ok"
                     THEN [run EXCEPT !.pc = "raised", !.exc = r.kind,
                                      !.listed = Head(run.todo).members,
                                      !.yielded = y]
                     ELSE [run EXCEPT !.todo = Tail(run.todo),
                                      !.listed = Head(run.todo).members,
                                      !.yielded = y,
                                      !.ingested = [repo |-> Head(run.todo).repo,
                                                    name |-> Head(run.todo).name],
                                      !.keys = r.keys]
    /\ UNCHANGED <<tables, snapshot, rival, pathVars, soCalls, request>>

\* the end of update_man_pages: the unreferenced Content rows are deleted
CollectContent ==
    /\ run.pc = "update_man_pages"
    /\ Len(run.todo) = 0
    /\ \E db \in { delete_unreferenced(txn) } :
         /\ ~waits(db)
         /\ txn' = db
    /\ run' = [run EXCEPT !.pc = "commit"]
    /\ UNCHANGED <<tables, mirror, snapshot, rival, pathVars, soCalls, request>>

\* the block of `with transaction.atomic()` ends normally, and the cache
\* directory is removed after it; an open transaction of the other process
\* sees the committed rows from now on
Commit ==
    /\ run.pc = "commit"
    /\ Package' = txn.Package
    /\ ManPage' = txn.ManPage
    /\ Content' = txn.Content
    /\ SymbolicLink' = txn.SymbolicLink
    /\ mirror' = clear_pkgcache(mirror, run.keep_tarballs)
    /\ run' = [run EXCEPT !.pc = "done"]
    /\ rival' = IF rival.run.pc \in InAtomic
                THEN [rival EXCEPT !.txn = rebase(txn, rival.snapshot, rival.txn),
                                   !.snapshot = txn]
                ELSE rival
    /\ UNCHANGED <<txn, snapshot, pathVars, soCalls, request>>

\* the process is interrupted inside the block
Interrupt ==
    /\ run.pc \in {"update_packages", "update_man_pages", "commit"}
    /\ run' = [run EXCEPT !.pc = "raised", !.exc = "KeyboardInterrupt"]
    /\ UNCHANGED <<tables, mirror, txn, snapshot, rival, pathVars, soCalls, request>>

\* the block of `with transaction.atomic()` is left by an exception
Rollback ==
    /\ run.pc = "raised"
    /\ \E db \in { rollback(Committed, txn) } :
         /\ Package' = db.Package
         /\ ManPage' = db.ManPage
         /\ Content' = db.Content
         /\ SymbolicLink' = db.SymbolicLink
    /\ run' = [run EXCEPT !.pc = "failed"]
    /\ UNCHANGED <<mirror, txn, snapshot, rival, pathVars, soCalls, request>>

NextSync ==
    \/ \E finder \in Mirrors, force \in BOOLEAN, only_repos \in OnlyRepos,
          only_packages \in OnlyPackages, keep_tarballs \in BOOLEAN :
            DoUpdate(finder, force, only_repos, only_packages, keep_tarballs)
    \/ UpdatePackages
    \/ \E downloaded \in BOOLEAN : UpdateManPages(downloaded)
    \/ CollectContent
    \/ Commit
    \/ Interrupt
    \/ Rollback

SpecSync == InitSync /\ [][NextSync]_vars

\* the scheduler runs the other sync process: the first one is started
\* before the second
Switch ==
    /\ run.n > 0
    /\ rival' = [mirror |-> mirror, txn |-> txn, snapshot |-> snapshot, run |-> run]
    /\ mirror' = rival.mirror
    /\ txn' = rival.txn
    /\ snapshot' = rival.snapshot
    /\ run' = rival.run
    /\ UNCHANGED <<tables, pathVars, soCalls, request>>

\* the mirrors the two processes are run on
RaceMirrors ==
    { Finder({core, extra}, <<a_1_9, b_1_9>>), Finder({core, extra}, <<b_1_9>>) }

NextRace ==
    \/ \E finder \in RaceMirrors, only_repos \in OnlyRepos :
            DoUpdate(finder, FALSE, only_repos, NotGiven, FALSE)
    \/ UpdatePackages
    \/ \E downloaded \in BOOLEAN : UpdateManPages(downloaded)
    \/ CollectContent
    \/ Commit
    \/ Interrupt
    \/ Rollback
    \/ Switch

SpecRace == InitSync /\ [][NextRace]_vars

\* C1: while a sync run is inside its transaction, and after it has failed
\* there, the Package, ManPage, Content and SymbolicLink tables are the ones
\* of the moment the run started
C1_FailedRunLeavesTables ==
    run.pc \in {"update_packages", "update_man_pages", "commit", "raised", "failed"}
        => Committed = snapshot

\* a run has failed on the hard link of b 1.10 after it had rewritten rows of
\* a store that held pages
C1_Witness ==
    /\ run.pc = "failed"
    /\ run.exc = "ManPage.DoesNotExist"
    /\ DOMAIN snapshot.ManPage # {}
    /\ txn # snapshot
    /\ Committed = snapshot

\* the archive of the package ingested last was opened and its entries yielded
Yielded == run.pc # "idle" /\ Len(run.yielded) > 0

\* C12: in the entries get_man_contents yields for one archive every
\* "hardlink" entry comes after every "file" entry, whatever the order of the
\* listing, and every listed man file is yielded exactly once, with the type
\* of its member.
C12_HardlinksLast ==
    Yielded =>
        /\ \A i, j \in DOMAIN run.yielded :
              run.yielded[i].t = "hardlink" /\ run.yielded[j].t = "file" => j < i
        /\ Len(run.yielded) = Len(run.listed)
        /\ \A i \in DOMAIN run.listed :
              Cardinality({ j \in DOMAIN run.yielded :
                              /\ run.yielded[j].t = run.listed[i].t
                              /\ run.yielded[j].v1 = StripGz(run.listed[i].v1) }) = 1

\* an archive whose listing has a hard link before the file it names
C12_Witness ==
    /\ Yielded
    /\ \E i, j \in DOMAIN run.listed :
          i < j /\ run.listed[i].t = "hardlink" /\ run.listed[j].t = "file"

\* C13: a failed download of one updated package's archive abandons only that
\* package: the run is not aborted by it and goes on to the remaining
\* packages and to its commit.
C13_DownloadFailureSkipsPackage ==
    run.pc \in {"raised", "failed"} => run.exc # "Exception"

\* C14: an entry that cannot be used (unclassifiable path, empty content, key
\* seen before, unusable link target) is skipped alone: once the entries of
\* an archive are being processed, no exception raised by one of them stops
\* the package or aborts the run (only an interrupt from outside ends it).
C14_EntryFailureSkipsEntry ==
    run.pc \in {"raised", "failed"} /\ Len(run.yielded) > 0
        => run.exc = "KeyboardInterrupt"

\* update_packages of the run has returned
UpdatedPackages == run.pc \in {"update_man_pages", "commit"}

\* the repository is one the run processes
Processed(repo) == run.only_repos = NotGiven \/ repo \in run.only_repos

\* C15: after update_packages every package observed in a processed
\* repository of the mirror is stored with the mirror's descriptive fields
\* (the description stands for description, URL, build date and licenses),
\* whether or not it was marked as updated.
C15_VolatileFieldsRefreshed ==
    UpdatedPackages =>
        \A k \in DOMAIN mirror.pkgcache :
            Processed(mirror.pkgcache[k].repo) =>
                \E i \in DOMAIN txn.Package :
                    /\ txn.Package[i].repo = mirror.pkgcache[k].repo
                    /\ txn.Package[i].name = mirror.pkgcache[k].name
                    /\ txn.Package[i].description = mirror.pkgcache[k].desc

\* the mirror's package cache has the package (repo, name)
InMirror(repo, name) ==
    \E k \in DOMAIN mirror.pkgcache :
        mirror.pkgcache[k].repo = repo /\ mirror.pkgcache[k].name = name

\* C16: after update_packages every stored package is in the mirror's package
\* cache; the packages absent from it are gone with all their ManPage and
\* SymbolicLink rows, and every package stored before that the mirror still
\* has is still stored under its id.
C16_StoredPackagesAreInMirror ==
    UpdatedPackages =>
        /\ \A i \in DOMAIN txn.Package :
              InMirror(txn.Package[i].repo, txn.Package[i].name)
        /\ \A m \in DOMAIN txn.ManPage : txn.ManPage[m].package \in DOMAIN txn.Package
        /\ \A l \in DOMAIN txn.SymbolicLink :
              txn.SymbolicLink[l].package \in DOMAIN txn.Package
        /\ \A i \in DOMAIN snapshot.Package :
              InMirror(snapshot.Package[i].repo, snapshot.Package[i].name) =>
                  /\ i \in DOMAIN txn.Package
                  /\ txn.Package[i].repo = snapshot.Package[i].repo
                  /\ txn.Package[i].name = snapshot.Package[i].name

\* update_packages has deleted a package that had pages and a symbolic link
\* and has kept another one
C16_Witness ==
    /\ UpdatedPackages
    /\ \E i \in DOMAIN snapshot.Package :
          /\ ~InMirror(snapshot.Package[i].repo, snapshot.Package[i].name)
          /\ \E m \in DOMAIN snapshot.ManPage : snapshot.ManPage[m].package = i
          /\ \E l \in DOMAIN snapshot.SymbolicLink : snapshot.SymbolicLink[l].package = i
    /\ \E i \in DOMAIN snapshot.Package : i \in DOMAIN txn.Package

\* the package run.ingested, which lists man files, was the last one ingested
Ingested ==
    /\ run.pc \in {"update_man_pages", "commit"}
    /\ Len(run.listed) > 0
    /\ run.ingested.name # <<>>

\* the entry is one the loop accepts as a page: a file with a classified path
\* and a content, or a hard link between two classified paths of different keys
AcceptedAsPage(e) ==
    /\ e.t \in {"file", "hardlink"}
    /\ parse_key(e.v1).kind = "ok"
    /\ e.t = "file" => e.v2 # <<>>
    /\ e.t = "hardlink" =>
          /\ parse_key(e.v2).kind = "ok"
          /\ parse_key(e.v2) # parse_key(e.v1)

\* the keys of the accepted file and hardlink entries among those yielded
AcceptedKeys ==
    { Key(s.name, s.section, s.lang) :
        s \in { parse_key(run.yielded[i].v1) :
                  i \in { j \in DOMAIN run.yielded : AcceptedAsPage(run.yielded[j]) } } }

\* the keys of the ManPage rows that `db` has for the package ingested last
StoredKeys(db) ==
    { Key(db.ManPage[m].name, db.ManPage[m].section, db.ManPage[m].lang) :
        m \in { q \in DOMAIN db.ManPage :
                  \E i \in DOMAIN db.Package :
                      /\ db.ManPage[q].package = i
                      /\ db.Package[i].repo = run.ingested.repo
                      /\ db.Package[i].name = run.ingested.name } }

\* C17: after the ingestion of an updated package that lists man files, the
\* keys of its stored ManPage rows are exactly the keys accumulated in the
\* pass from the accepted file and hardlink entries.
C17_PagesAreAccumulatedKeys ==
    Ingested =>
        /\ run.keys = AcceptedKeys
        /\ StoredKeys(txn) = run.keys

\* a page stored by an earlier run was not among the keys of this pass
C17_Witness ==
    /\ Ingested
    /\ run.keys # {}
    /\ StoredKeys(snapshot) \ run.keys # {}

\* the SymbolicLink rows that `db` has for the package ingested last
StoredLinks(db) ==
    { db.SymbolicLink[l] :
        l \in { q \in DOMAIN db.SymbolicLink :
                  \E i \in DOMAIN db.Package :
                      /\ db.SymbolicLink[q].package = i
                      /\ db.Package[i].repo = run.ingested.repo
                      /\ db.Package[i].name = run.ingested.name } }

\* what an accepted symlink entry stores (classified source and target, same
\* language, another name or section), Nothing for an entry that is skipped
LinkOf(e) ==
    CHOOSE res \in
      { IF /\ e.t = "symlink"
           /\ s.kind = "ok" /\ t.kind = "ok"
           /\ s.lang = t.lang
           /\ ~(s.section = t.section /\ s.name = t.name)
        THEN [kind |-> "link", lang |-> s.lang,
              from_section |-> s.section, from_name |-> s.name,
              to_section |-> t.section, to_name |-> t.name]
        ELSE Nothing :
        s \in { parse_key(e.v1) },
        t \in { IF e.t = "symlink" THEN parse_key(link_target(e.v1, e.v2))
                ELSE Rejected } } : TRUE

\* the row is the one the entry stores
IsLinkOf(row, e) ==
    \E link \in { LinkOf(e) } :
        /\ link.kind = "link"
        /\ row.lang = link.lang
        /\ row.from_section = link.from_section /\ row.from_name = link.from_name
        /\ row.to_section = link.to_section /\ row.to_name = link.to_name

\* C18: after the ingestion of an updated package its stored SymbolicLink
\* rows are exactly the symlinks accepted in the pass: every accepted symlink
\* has its row, and a row of an earlier pass whose source is no longer
\* shipped as a symlink is gone.
C18_LinksAreAcceptedSymlinks ==
    Ingested =>
        /\ \A row \in StoredLinks(txn) :
              \E j \in DOMAIN run.yielded : IsLinkOf(row, run.yielded[j])
        /\ \A j \in DOMAIN run.yielded :
              LinkOf(run.yielded[j]).kind = "link"
                => \E row \in StoredLinks(txn) : IsLinkOf(row, run.yielded[j])

\* C19: when a sync run has completed, every Content row is named by the
\* content field of at least one ManPage, and every content field names a
\* Content row that exists.
C19_NoUnreferencedContent ==
    run.pc = "done" =>
        /\ \A c \in DOMAIN Content : \E m \in DOMAIN ManPage : ManPage[m].content_id = c
        /\ \A m \in DOMAIN ManPage : ManPage[m].content_id \in DOMAIN Content

\* a completed run has collected a Content row and kept another
C19_Witness ==
    /\ run.pc = "done"
    /\ DOMAIN Content # {}
    /\ \E c \in DOMAIN snapshot.Content : c \notin DOMAIN Content

\* C20: after any sequence of sync runs every stored ManPage has a non-empty
\* name and a non-empty section, no dot in its section, no dot in its
\* language, and no two ManPage rows have the same package, name, section and
\* language.
C20_StoredPagesWellFormed ==
    /\ \A m \in DOMAIN ManPage :
          /\ ManPage[m].name # <<>>
          /\ ManPage[m].section # <<>>
          /\ \A i \in DOMAIN ManPage[m].section : ManPage[m].section[i] # "."
          /\ \A i \in DOMAIN ManPage[m].lang : ManPage[m].lang[i] # "."
    /\ \A m, q \in DOMAIN ManPage :
          ( /\ ManPage[m].package = ManPage[q].package
            /\ ManPage[m].name = ManPage[q].name
            /\ ManPage[m].section = ManPage[q].section
            /\ ManPage[m].lang = ManPage[q].lang ) => m = q

\* a second run has completed on a store that held the page of a language
\* directory with an encoding hint, and has stored pages again
C20_Witness ==
    /\ run.pc = "done"
    /\ run.n = 2
    /\ \E m \in DOMAIN snapshot.ManPage : snapshot.ManPage[m].lang = <<"r", "u">>
    /\ run.keys # {}
    /\ Cardinality(DOMAIN ManPage) > 1

\* the symlink entry has a classified source and target that are in different
\* languages (cross) or have the same language, name and section (itself)
SkippedLink(e, why) ==
    /\ e.t = "symlink"
    /\ \E s \in { parse_key(e.v1) }, t \in { parse_key(link_target(e.v1, e.v2)) } :
          /\ s.kind = "ok" /\ t.kind = "ok"
          /\ why = "cross" => s.lang # t.lang
          /\ why = "itself" =>
                s.lang = t.lang /\ s.section = t.section /\ s.name = t.name

\* the rows that `db` has for the source of the symlink entry in the package
\* ingested last
LinksFrom(db, e) ==
    { row \in StoredLinks(db) :
        \E s \in { parse_key(e.v1) } :
            /\ row.lang = s.lang
            /\ row.from_section = s.section
            /\ row.from_name = s.name }

\* C21: no stored SymbolicLink points to itself, and a symlink entry whose
\* target is in another language, or is its own source, is skipped: the rows
\* of its source are the ones the store had before the run.
C21_NoSelfOrCrossLanguageLink ==
    /\ \A l \in DOMAIN SymbolicLink :
          ~( /\ SymbolicLink[l].from_name = SymbolicLink[l].to_name
             /\ SymbolicLink[l].from_section = SymbolicLink[l].to_section )
    /\ Ingested =>
          \A j \in DOMAIN run.yielded :
              \A why \in {"cross", "itself"} :
                  SkippedLink(run.yielded[j], why) =>
                      LinksFrom(txn, run.yielded[j]) = LinksFrom(snapshot, run.yielded[j])

\* a package was ingested whose archive has a symlink into another language,
\* stored as a link by an earlier run, and a symlink to itself
C21_Witness ==
    /\ Ingested
    /\ \E j \in DOMAIN run.yielded :
          /\ SkippedLink(run.yielded[j], "cross")
          /\ LinksFrom(snapshot, run.yielded[j]) # {}
    /\ \E j \in DOMAIN run.yielded : SkippedLink(run.yielded[j], "itself")

\* the transaction of the run is open: `with transaction.atomic()` was
\* entered and not left
TransactionOpen == run.pc \in InAtomic

\* C22: no package archive is downloaded while the transaction of the sync
\* run is open: a step that puts a tarball into the cache directory is not
\* taken between the beginning of the atomic block and its end.
C22_NoDownloadInTransaction ==
    [][ mirror'.cachedir \ mirror.cachedir # {} => ~TransactionOpen ]_vars

\* C23: at most one sync run mutates the store at a time: two sync processes
\* are never both inside their transaction with rows written in it.
C23_OneRunMutatesAtATime ==
    ~( /\ TransactionOpen /\ txn # snapshot
       /\ rival.run.pc \in InAtomic /\ rival.txn # rival.snapshot )

\* the page is a pure alias that resolve_so_link pointed at the Content row
\* of another page
ResolvedAlias(p) ==
    /\ IsPureAlias(Content[ManPage[p].content_id].raw)
    /\ ManPage[p].converted_content_id \notin {NULL, ManPage[p].content_id}

\* C24: derived html or txt is never stored on the Content row of a page
\* that is a pure .so alias resolved to another page: after any calls of
\* get_converted, the alias page's own Content row holds neither.
C24_AliasContentHasNoDerived ==
    \A p \in DOMAIN ManPage :
        ResolvedAlias(p) =>
            /\ Content[ManPage[p].content_id].html = None
            /\ Content[ManPage[p].content_id].txt = None

\* resolve_so_link was called on a page whose raw text is a pure alias
CalledResolveOnAlias ==
    /\ CalledResolve
    /\ IsPureAlias(Content[ManPage[outcome.page].content_id].raw)

\* what the call on the pure alias outcome.page must have done, by the pages
\* that have the name and section of the target and the language of the page
AliasOutcome ==
    LET p     == outcome.page
        found == AliasMatches(ManPage, p,
                     Substance(Content[ManPage[p].content_id].raw)[1].target)
        same  == { q \in found : ManPage[q].package = ManPage[p].package }
    IN  /\ found = {} =>
              outcome.kind = "SoelimError" /\ outcome.msg = "unknown target page"
        /\ Cardinality(found) > 1 /\ same # {} =>
              /\ outcome.kind = "ok"
              /\ \E q \in same : ManPage[p].converted_content_id = ManPage[q].content_id
        /\ Cardinality(found) > 1 /\ same = {} =>
              outcome.kind = "SoelimError" /\ outcome.msg = "ambiguous target page"

\* C25 as stated: resolve_so_link on a pure alias raises SoelimError (unknown
\* target) when no page has the target's name, section and the language;
\* when several have, it sets converted_content to the content of the one in
\* the package of the page, and raises SoelimError (ambiguous target) when
\* none of them is in that package.
C25_AliasTargetOutcome ==
    CalledResolveOnAlias => AliasOutcome

\* C25 amended: the same, for a call on a page whose converted_content is not
\* yet set; a call on a page whose converted_content is set returns at once
\* and leaves the pointer, whatever pages have the target's name by then.
C25_AliasTargetOutcomeWhenUnset ==
    CalledResolveOnAlias =>
        /\ outcome.before = NULL => AliasOutcome
        /\ outcome.before # NULL =>
              /\ outcome.kind = "ok"
              /\ ManPage[outcome.page].converted_content_id = outcome.before

\* C25 witness: the call was made on an alias of a page that two other
\* packages ship and the package of the alias does not, and raised the
\* ambiguous target
C25_Witness ==
    /\ CalledResolveOnAlias
    /\ outcome.before = NULL
    /\ Cardinality(AliasMatches(ManPage, outcome.page,
           Substance(Content[ManPage[outcome.page].content_id].raw)[1].target)) > 1
    /\ outcome.msg = "ambiguous target page"

\* the lines re.sub goes over in the call on outcome.page: the raw text of
\* its converted content
ExpandedRaw == Content[ManPage[outcome.page].converted_content_id].raw

\* line i is a .so request whose target cannot be resolved: no page has its
\* name, section and the language, or several have and none is in the
\* package of the page
Unresolvable(i) ==
    /\ ExpandedRaw[i].kind = "so"
    /\ TargetsOfRequest(ManPage, outcome.page, ExpandedRaw[i].target) = {}

\* C26: a .so request inside a page whose target cannot be resolved does not
\* abort get_preprocessed_content: when no request of the page can be
\* resolved the call returns the page with every request line replaced by
\* `See the file <file>.`, and whenever the call returns, the text has that
\* line for each request that cannot be resolved.
C26_UnresolvedInlineFallsBack ==
    CalledPreprocess /\ ManPage[outcome.page].converted_content_id # NULL =>
        /\ (\A i \in DOMAIN ExpandedRaw :
                ExpandedRaw[i].kind = "so" => Unresolvable(i))
           => /\ outcome.kind = "ok"
              /\ outcome.text =
                    [i \in DOMAIN ExpandedRaw |->
                       IF ExpandedRaw[i].kind = "so"
                       THEN [kind |-> "fallback", target |-> ExpandedRaw[i].target]
                       ELSE ExpandedRaw[i]]
        /\ outcome.kind = "ok"
           => \A i \in DOMAIN ExpandedRaw :
                 Unresolvable(i) =>
                    \E k \in DOMAIN outcome.text :
                        outcome.text[k] =
                            [kind |-> "fallback", target |-> ExpandedRaw[i].target]

\* C26 witness: the call returned a page with text between a request that
\* cannot be resolved, replaced by the fallback, and a request that was
\* expanded
C26_Witness ==
    /\ CalledPreprocess
    /\ outcome.kind = "ok"
    /\ ManPage[outcome.page].converted_content_id # NULL
    /\ \E i, j \in DOMAIN ExpandedRaw :
          /\ Unresolvable(i)
          /\ ExpandedRaw[j].kind = "so" /\ ~Unresolvable(j)
    /\ \E k \in DOMAIN outcome.text : outcome.text[k].kind = "fallback"
    /\ \E k \in DOMAIN outcome.text : outcome.text[k].kind = "text"

\* the level at which the call on outcome.page reaches the page q of the
\* chain
LevelOf(q) == outcome.level + (q - outcome.page)

\* the pages of the chain from outcome.page on
Below == { q \in DOMAIN ManPage : q >= outcome.page }

\* C27: the recursion has a ceiling of 100 levels whatever the pages are: in
\* a chain of distinct pages, get_preprocessed_content never expands a page
\* at a level above 100, and when the chain has a page at a level above 100
\* (it goes through more than 100 pages below the first) the call ends by
\* raising SoelimError "recursion depth exceeded"; a chain whose last page
\* is at level 100 or below it is returned.
C27_DepthCeiling ==
    CalledPreprocess =>
        /\ \A q \in Below : LevelOf(q) > RecursionLimit => q \notin outcome.resolved
        /\ (\E q \in Below : LevelOf(q) > RecursionLimit /\ q > outcome.page) =>
              /\ outcome.kind = "SoelimError"
              /\ outcome.msg = "recursion depth exceeded"
        /\ (\A q \in Below : LevelOf(q) <= RecursionLimit) =>
              /\ outcome.kind = "ok"
              /\ Len(outcome.text) = Cardinality(Below) + 1

\* C27 witness: the call reached level 100, expanded the page there and
\* raised the depth error at the page of level 101
C27_Witness ==
    /\ CalledPreprocess
    /\ outcome.msg = "recursion depth exceeded"
    /\ \E q \in outcome.resolved :
          /\ LevelOf(q) = RecursionLimit
          /\ q + 1 \in DOMAIN ManPage
          /\ ManPage[q + 1].converted_content_id = NULL


(***************************************************************************)
(* Claims about the section rank                                           *)
(***************************************************************************)
\* the section is one of the ranked sections
Ranked(section) == \E i \in DOMAIN section_order : section_order[i] = section

\* the first character of the section is a ranked section
LeaderRanked(section) == Ranked(<<section[1]>>)

\* the place of the section's first character in the fixed priority order
LeaderRank(section) == index(section_order, <<section[1]>>)

\* section a comes before section b when a section that starts with a ranked
\* character sorts within the group of that character
BeforeWithinGroups(a, b) ==
    IF LeaderRanked(a) /\ LeaderRanked(b)
    THEN \/ LeaderRank(a) < LeaderRank(b)
         \/ LeaderRank(a) = LeaderRank(b) /\ Ranked(a) /\ ~Ranked(b)
    ELSE IF LeaderRanked(a) THEN TRUE
    ELSE IF LeaderRanked(b) THEN FALSE
    ELSE StrLess(a, b)

\* section a comes before section b when the ranked sections come first, the
\* sections that start with a ranked character next, the others last
BeforeAfterRanked(a, b) ==
    IF Ranked(a) /\ Ranked(b) THEN LeaderRank(a) < LeaderRank(b)
    ELSE IF Ranked(a) THEN TRUE
    ELSE IF Ranked(b) THEN FALSE
    ELSE IF LeaderRanked(a) /\ LeaderRanked(b)
    THEN \/ LeaderRank(a) < LeaderRank(b)
         \/ LeaderRank(a) = LeaderRank(b) /\ StrLess(Tail(a), Tail(b))
    ELSE IF LeaderRanked(a) THEN TRUE
    ELSE IF LeaderRanked(b) THEN FALSE
    ELSE StrLess(a, b)

\* C28: no candidate's section comes before the section of the best match in
\* this order: ranked sections in the fixed priority order, a section that
\* shares its first character with a ranked section within that section's
\* group (after the ranked section, before every section of a lower-ranked
\* group, "1p" before "8"), sections with an unranked first character after
\* all others and lexically among themselves.
C28_SectionGroupsInterleaved ==
    (Answered /\ response.db_man # NULL) =>
        \A q \in response.query :
            ~BeforeWithinGroups(ManPage[q].section, ManPage[response.db_man].section)

\* C28 as the code orders: no candidate's section comes before the section of
\* the best match when the ranked sections come first in the fixed priority
\* order, then the sections that start with a ranked character (by the
\* priority of that character, then lexically by the rest), then the
\* sections with an unranked first character, lexically.
C28_SectionGroupsAfterRanked ==
    (Answered /\ response.db_man # NULL) =>
        \A q \in response.query :
            ~BeforeAfterRanked(ManPage[q].section, ManPage[response.db_man].section)

\* C28 witness: of the candidates in sections "1p" and "8" the one in "8" is
\* the best match
C28_Witness ==
    /\ Answered
    /\ response.query = {1, 2}
    /\ ManPage[1].section = <<"1","p">>
    /\ ManPage[2].section = <<"8">>
    /\ response.db_man = 2


(***************************************************************************)
(* Claims about snippets of three or more segments and the retry in the    *)
(* default language                                                        *)
(***************************************************************************)
\* a page named `name` in language `lang`, or a symbolic link from that name
\* in that language, has a section starting with `section`
SectionLangKnown(name, section, lang) ==
    \/ \E m \in DOMAIN ManPage :
          /\ ManPage[m].name = name
          /\ startswith(ManPage[m].section, section)
          /\ ManPage[m].lang = lang
    \/ \E l \in DOMAIN SymbolicLink :
          /\ SymbolicLink[l].from_name = name
          /\ startswith(SymbolicLink[l].from_section, section)
          /\ SymbolicLink[l].lang = lang

\* C29: for a snippet of three or more dot-segments whose last segment is not
\* a section of the name before it: if the last segment is the language of a
\* stored page, the parse is (snippet without its last two segments,
\* second-to-last segment, language) when such a page or link exists,
\* otherwise (snippet without its last segment, unset, language) when a page
\* of that name and language exists, otherwise (snippet, unset, unset); if
\* the last segment is not a known language the parse is (snippet, unset,
\* unset).
C29_SectionThenLanguage ==
    Answered =>
        LET snippet == kwargs.name_section_lang
            parts   == split(snippet, ".")
            n       == Len(parts)
            name    == join(SubSeq(parts, 1, n - 1), ".")
            name2   == join(SubSeq(parts, 1, n - 2), ".")
        IN  (n >= 3 /\ ~SectionKnown(name, parts[n])) =>
              response.parsed =
                 IF ~\E m \in DOMAIN ManPage : ManPage[m].lang = parts[n]
                 THEN Parsed(snippet, None, None)
                 ELSE IF SectionLangKnown(name2, parts[n - 1], parts[n])
                 THEN Parsed(name2, parts[n - 1], parts[n])
                 ELSE IF \E m \in DOMAIN ManPage :
                            ManPage[m].name = name /\ ManPage[m].lang = parts[n]
                 THEN Parsed(name, None, parts[n])
                 ELSE Parsed(snippet, None, None)

\* C29 witness: f.1.de was parsed into the name f, the section 1 and the
\* language de, while a page named f.1 in the language de is stored as well
C29_Witness ==
    /\ Answered
    /\ kwargs.name_section_lang = <<"f",".","1",".","d","e">>
    /\ ~SectionKnown(<<"f",".","1">>, de)
    /\ \E m \in DOMAIN ManPage : ManPage[m].name = <<"f",".","1">> /\ ManPage[m].lang = de
    /\ response.parsed = Parsed(<<"f">>, <<"1">>, de)


\* the package of the row is within the scope the address names
InScope(package) ==
    /\ kwargs.pkgname # None => Package[package].name = kwargs.pkgname
    /\ kwargs.repo # None => Package[package].repo = kwargs.repo

\* the language the view looks the parsed request up in
RequestLang == IF response.parsed.lang # None THEN response.parsed.lang ELSE en

\* a stored page matches the parsed request
PageMatches ==
    \E m \in DOMAIN ManPage :
        /\ InScope(ManPage[m].package)
        /\ ManPage[m].name = response.parsed.name
        /\ ManPage[m].lang = RequestLang
        /\ response.parsed.section # None =>
              startswith(ManPage[m].section, response.parsed.section)

\* a symbolic link matches the parsed request
LinkMatches ==
    \E l \in DOMAIN SymbolicLink :
        /\ InScope(SymbolicLink[l].package)
        /\ SymbolicLink[l].from_name = response.parsed.name
        /\ SymbolicLink[l].lang = RequestLang
        /\ response.parsed.section # None =>
              startswith(SymbolicLink[l].from_section, response.parsed.section)

\* the parse of the original snippet with the default language forced
Reparsed ==
    _parse_man_name_section_lang(Tables(Package, ManPage, SymbolicLink),
                                 kwargs.name_section_lang, en)

\* the re-parse gives another name or section, in the default language
ReparseDiffers ==
    /\ Reparsed.name # response.parsed.name \/ Reparsed.section # response.parsed.section
    /\ Reparsed.lang = en

\* C30: when neither a page nor a symbolic link matches the parsed request,
\* the answer is a redirect to the address of the re-parsed (name, section,
\* en), under the scope of the request, exactly when the parse of the original
\* snippet with en forced gives a different name or section and the language
\* en; otherwise the answer is not found.
C30_RetryInDefaultLanguage ==
    (Answered /\ ~PageMatches /\ ~LinkMatches) =>
        IF ReparseDiffers
        THEN /\ response.status = 302
             /\ response.location =
                   reverse_man_url(kwargs.repo, kwargs.pkgname, Reparsed.name,
                                   Reparsed.section, en, kwargs.url_output_type)
        ELSE response.status = 404

\* C30 witness: f.de was asked for, no page f is stored in de, the snippet was
\* parsed as the name f.de, and the answer is a redirect to f in en
C30_Witness ==
    /\ Answered
    /\ ~PageMatches
    /\ ~LinkMatches
    /\ kwargs.name_section_lang = <<"f",".","d","e">>
    /\ response.parsed = Parsed(<<"f",".","d","e">>, None, None)
    /\ Reparsed = Parsed(<<"f">>, None, en)
    /\ response.status = 302


(***************************************************************************)
(* Claims about hard links, packages without man files and package         *)
(* versions                                                                *)
(***************************************************************************)
\* the rows that `db` has for the key in the package ingested last
RowsOfKey(db, key) ==
    { m \in DOMAIN db.ManPage :
        /\ Key(db.ManPage[m].name, db.ManPage[m].section, db.ManPage[m].lang) = key
        /\ \E i \in DOMAIN db.Package :
              /\ db.ManPage[m].package = i
              /\ db.Package[i].repo = run.ingested.repo
              /\ db.Package[i].name = run.ingested.name }

\* the yielded entry j is a hard link between two classified paths
ClassifiedHardlink(j) ==
    /\ run.yielded[j].t = "hardlink"
    /\ parse_key(run.yielded[j].v1).kind = "ok"
    /\ parse_key(run.yielded[j].v2).kind = "ok"

\* the key of a classified path
KeyOfPath(p) == CHOOSE k \in { Key(s.name, s.section, s.lang) : s \in { parse_key(p) } } : TRUE

\* the source row of the yielded hard link j is stored and names the Content
\* row of its target row
SharesTarget(j) ==
    \E m \in RowsOfKey(txn, KeyOfPath(run.yielded[j].v1)) :
       \E q \in RowsOfKey(txn, KeyOfPath(run.yielded[j].v2)) :
          /\ txn.ManPage[m].content_id = txn.ManPage[q].content_id
          /\ txn.ManPage[m].content_id \in DOMAIN txn.Content

\* an entry yielded before j was accepted as a page under the key of j's source
SeenBefore(j) ==
    \E i \in 1..(j - 1) :
        /\ AcceptedAsPage(run.yielded[i])
        /\ KeyOfPath(run.yielded[i].v1) = KeyOfPath(run.yielded[j].v1)

\* no entry other than j was accepted as a page under the key of j's source
OnlyFrom(j) ==
    \A i \in DOMAIN run.yielded :
        (i # j /\ AcceptedAsPage(run.yielded[i]))
            => KeyOfPath(run.yielded[i].v1) # KeyOfPath(run.yielded[j].v1)

\* C31: after the ingestion of a package, for every hardlink entry whose
\* source and target have distinct keys the source key has a ManPage row in
\* the package whose content is the Content row of the target's ManPage; a
\* hardlink whose source and target have the same key has changed nothing
\* (it has stored no page).
C31_HardlinkSharesContent ==
    Ingested =>
        \A j \in DOMAIN run.yielded :
            ClassifiedHardlink(j) =>
                IF KeyOfPath(run.yielded[j].v1) # KeyOfPath(run.yielded[j].v2)
                THEN SharesTarget(j)
                ELSE OnlyFrom(j) => RowsOfKey(txn, KeyOfPath(run.yielded[j].v1)) = {}

\* C31 with the keys of the pass: the source row shares the target's Content
\* when no earlier entry of the pass was accepted under the source key; when
\* one was, the hardlink is skipped and the source row keeps the Content of
\* that entry, which is not the target's; a hardlink whose source and target
\* have the same key has stored no page.
C31_HardlinkSharesContentUnlessSeen ==
    Ingested =>
        \A j \in DOMAIN run.yielded :
            ClassifiedHardlink(j) =>
                IF KeyOfPath(run.yielded[j].v1) = KeyOfPath(run.yielded[j].v2)
                THEN OnlyFrom(j) => RowsOfKey(txn, KeyOfPath(run.yielded[j].v1)) = {}
                ELSE IF SeenBefore(j)
                THEN /\ RowsOfKey(txn, KeyOfPath(run.yielded[j].v1)) # {}
                     /\ ~SharesTarget(j)
                ELSE SharesTarget(j)

\* C31 witness: the package ingested last has a hard link that shares the
\* Content of its target, one that was skipped for a key seen before, and one
\* between two paths of the same key
C31_Witness ==
    /\ Ingested
    /\ \E j \in DOMAIN run.yielded :
          /\ ClassifiedHardlink(j)
          /\ KeyOfPath(run.yielded[j].v1) # KeyOfPath(run.yielded[j].v2)
          /\ ~SeenBefore(j)
          /\ SharesTarget(j)
    /\ \E j \in DOMAIN run.yielded :
          /\ ClassifiedHardlink(j)
          /\ KeyOfPath(run.yielded[j].v1) # KeyOfPath(run.yielded[j].v2)
          /\ SeenBefore(j)
    /\ \E j \in DOMAIN run.yielded :
          /\ ClassifiedHardlink(j)
          /\ KeyOfPath(run.yielded[j].v1) = KeyOfPath(run.yielded[j].v2)


\* the package ingested last lists no man file
NoManFiles ==
    /\ run.pc \in {"update_man_pages", "commit"}
    /\ run.ingested.name # <<>>
    /\ Len(run.listed) = 0

\* the ManPage and SymbolicLink rows that `db` has for the package ingested
\* last, by id
RowsOfIngested(db) ==
    [ManPage |-> { <<m, db.ManPage[m]>> :
                     m \in { q \in DOMAIN db.ManPage :
                               \E i \in DOMAIN db.Package :
                                   /\ db.ManPage[q].package = i
                                   /\ db.Package[i].repo = run.ingested.repo
                                   /\ db.Package[i].name = run.ingested.name } },
     SymbolicLink |-> { <<l, db.SymbolicLink[l]>> :
                     l \in { q \in DOMAIN db.SymbolicLink :
                               \E i \in DOMAIN db.Package :
                                   /\ db.SymbolicLink[q].package = i
                                   /\ db.Package[i].repo = run.ingested.repo
                                   /\ db.Package[i].name = run.ingested.name } }]

\* the tarballs of the package ingested last in the versions the run updates
TarballsOfIngested ==
    { tarball(run.updated_pkgs[i]) :
        i \in { j \in DOMAIN run.updated_pkgs :
                  /\ run.updated_pkgs[j].repo = run.ingested.repo
                  /\ run.updated_pkgs[j].name = run.ingested.name } }

\* C32: after the ingestion of an updated package whose file listing has no
\* man file, the ManPage and SymbolicLink rows of the package are the ones
\* the store had when the run began (none created, modified or deleted), and
\* the archive of the package has not been downloaded.
C32_NoManFilesLeavesPages ==
    NoManFiles =>
        /\ RowsOfIngested(txn) = RowsOfIngested(snapshot)
        /\ TarballsOfIngested \cap mirror.cachedir = {}

\* C32 witness: the package without man files was updated from a version
\* whose pages are stored, and another package's archive was downloaded in
\* the same run
C32_Witness ==
    /\ NoManFiles
    /\ RowsOfIngested(snapshot).ManPage # {}
    /\ RowsOfIngested(txn).ManPage # {}
    /\ TarballsOfIngested # {}
    /\ mirror.cachedir # {}


\* the rows of the package (repo, name) in the Package table of `db`
StoredAs(db, repo, name) ==
    { i \in DOMAIN db.Package : db.Package[i].repo = repo /\ db.Package[i].name = name }

\* update_packages marked the mirror package updated
Marked(pkg) == \E j \in DOMAIN run.updated_pkgs : run.updated_pkgs[j] = pkg

\* the package was stored before the run in a version strictly older than
\* the mirror's
StoredOlder(pkg) ==
    \E i \in StoredAs(snapshot, pkg.repo, pkg.name) :
        vercmp(snapshot.Package[i].version, pkg.version) = -1

\* C33: of the mirror packages in the repositories the run processes,
\* update_packages has marked updated exactly those that were not stored, or
\* stored in a strictly older version, or all of them under force; a package
\* stored in an equal or newer version is not marked without force, and its
\* stored version is the one it had.
C33_MarkedIffNewerOrForced ==
    UpdatedPackages =>
        \A k \in DOMAIN mirror.pkgcache :
            Processed(mirror.pkgcache[k].repo) =>
                LET pkg == mirror.pkgcache[k]
                    was == StoredAs(snapshot, pkg.repo, pkg.name)
                IN  /\ Marked(pkg) <=> (was = {} \/ StoredOlder(pkg) \/ run.force)
                    /\ (was # {} /\ ~StoredOlder(pkg) /\ ~run.force) =>
                          \A i \in was :
                              /\ i \in DOMAIN txn.Package
                              /\ txn.Package[i].version = snapshot.Package[i].version

\* C33 witness: without force, a package stored in a newer version than the
\* mirror's was not marked while another package was
C33_Witness ==
    /\ UpdatedPackages
    /\ ~run.force
    /\ \E k \in DOMAIN mirror.pkgcache :
          /\ Processed(mirror.pkgcache[k].repo)
          /\ \E i \in StoredAs(snapshot, mirror.pkgcache[k].repo, mirror.pkgcache[k].name) :
                vercmp(snapshot.Package[i].version, mirror.pkgcache[k].version) = 1
          /\ ~Marked(mirror.pkgcache[k])
    /\ Len(run.updated_pkgs) > 0


(***************************************************************************)
(* Claims about the raw content of a page after its package was ingested   *)
(***************************************************************************)
\* the yielded entry j is a regular file the loop accepts, the first one of
\* its key in the pass
FirstFileOfKey(j) ==
    /\ run.yielded[j].t = "file"
    /\ AcceptedAsPage(run.yielded[j])
    /\ \A i \in 1..(j - 1) :
          AcceptedAsPage(run.yielded[i])
              => KeyOfPath(run.yielded[i].v1) # KeyOfPath(run.yielded[j].v1)

\* C34: after the ingestion of a package, every ManPage whose key was
\* accepted from a regular-file entry of the pass has the content of the
\* first regular-file entry of that key as its raw content, whatever Content
\* rows the pages of the package shared before the run.
C34_FileContentIsStored ==
    Ingested =>
        \A j \in DOMAIN run.yielded :
            FirstFileOfKey(j) =>
                \E m \in RowsOfKey(txn, KeyOfPath(run.yielded[j].v1)) :
                    /\ txn.ManPage[m].content_id \in DOMAIN txn.Content
                    /\ txn.Content[txn.ManPage[m].content_id].raw = run.yielded[j].v2


(***************************************************************************)
(* Sync runs and readers on one store.  The pages of package p are shipped *)
(* as roff lines: a.1 is an alias of b.1 in 1.9, a text of its own in 1.10 *)
(* and an alias again in 1.11, which ships no b.1.  Readers and conversion *)
(* workers call get_converted between the runs, on the committed tables;   *)
(* man_drop_cache empties the caches.                                      *)
(***************************************************************************)
p_1_9 == Pkg(core, <<"p">>, <<"1", ".", "9">>,
             << File(man1(<<"a",".","1">>), <<SoLine(b1)>>),
                File(man1(<<"b",".","1">>), <<TextLine>>) >>)

p_1_10 == Pkg(core, <<"p">>, <<"1", ".", "1", "0">>,
              << File(man1(<<"a",".","1">>), <<TextLine, TextLine>>),
                 File(man1(<<"b",".","1">>), <<TextLine>>) >>)

p_1_11 == Pkg(core, <<"p">>, <<"1", ".", "1", "1">>,
              << File(man1(<<"a",".","1">>), <<SoLine(b1)>>) >>)

ServeMirrors ==
    { Finder({core}, <<p_1_9>>), Finder({core}, <<p_1_10>>),
      Finder({core}, <<p_1_11>>), Finder({core}, <<>>) }

ServeIds == {1, 2, 3}

\* man_drop_cache: the derived forms and the converted_content of every row
\* are set to NULL
drop_cache(db) ==
    [db EXCEPT
       !.Content = [c \in DOMAIN db.Content |->
                      [db.Content[c] EXCEPT !.html = None, !.txt = None]],
       !.ManPage = [m \in DOMAIN db.ManPage |->
                      [db.ManPage[m] EXCEPT !.converted_content_id = NULL]]]

\* the man_drop_cache command, between two sync runs
DropCache ==
    /\ run.pc \notin InAtomic
    /\ \E db \in { drop_cache(Committed) } :
         /\ db # Committed
         /\ ManPage' = db.ManPage
         /\ Content' = db.Content
    /\ UNCHANGED <<Package, SymbolicLink, trail, soCalls, request, pathVars, syncVars>>

InitServe ==
    /\ Package = <<>>
    /\ ManPage = <<>>
    /\ Content = <<>>
    /\ SymbolicLink = <<>>
    /\ outcome = Nothing
    /\ first_ptr = [p \in PageIds |-> NULL]
    /\ alive = [p \in PageIds |-> FALSE]
    /\ recalled = [p \in PageIds |-> FALSE]
    /\ SyncIdle
    /\ PathIdle
    /\ WebFresh

NextServe ==
    \/ \E finder \in ServeMirrors, force \in BOOLEAN :
          DoUpdate(finder, force, NotGiven, NotGiven, FALSE)
    \/ UpdatePackages
    \/ UpdateManPages(TRUE)
    \/ CollectContent
    \/ Commit
    \/ \E id \in ServeIds : \E output_type \in {"html", "txt"} :
          run.pc \notin InAtomic /\ GetConverted(id, output_type)
    \/ DropCache

SpecServe == InitServe /\ [][NextServe]_vars

(***************************************************************************)
(* Claims about the derived forms after a sync run                         *)
(***************************************************************************)
\* get_converted has returned a text for a page whose raw content has no .so
\* request
ServedPlainPage ==
    /\ outcome.kind = "ok"
    /\ outcome.op = "get_converted"
    /\ \A i \in DOMAIN outcome.raw : outcome.raw[i].kind # "so"

\* C35: what get_converted serves for a page is derived from the raw content
\* the page has at the call, also after a sync run has replaced that content:
\* for a page without .so requests it is the rendering of the page's raw
\* lines, never the rendering of an earlier content or of the target of an
\* alias the page once was.
C35_ServedFromCurrentRaw ==
    ServedPlainPage =>
        /\ Head(outcome.text) \in {"html", "txt"}
        /\ Tail(outcome.text) = outcome.raw


\* C40: in every committed state of the store, after sync runs, cache drops
\* and conversions, the content of every ManPage is an existing Content row
\* and every converted_content that is set is an existing Content row.
C40_NoDanglingReference ==
    \A m \in DOMAIN ManPage :
        /\ ManPage[m].content_id \in DOMAIN Content
        /\ ManPage[m].converted_content_id # NULL
              => ManPage[m].converted_content_id \in DOMAIN Content

\* C40 witness: a run has deleted a page and the Content row that the
\* converted_content of another page named, and that page is still stored
C40_Witness ==
    /\ run.pc = "done"
    /\ \E m \in DOMAIN ManPage :
          /\ m \in DOMAIN snapshot.ManPage
          /\ snapshot.ManPage[m].converted_content_id # NULL
          /\ snapshot.ManPage[m].converted_content_id \notin DOMAIN Content
          /\ ManPage[m].converted_content_id = NULL
    /\ \E q \in DOMAIN snapshot.ManPage : q \notin DOMAIN ManPage


(***************************************************************************)
(* A get_converted call that a sync run overtakes.  The call reads the     *)
(* page and renders it outside any transaction; the rendering is an        *)
(* external process and takes time; set_content then updates the Content   *)
(* row by its id.  The steps of the call are placed before and after the   *)
(* transaction of a run.                                                   *)
(***************************************************************************)
\* get_converted up to the end of mandoc_convert and postprocess: the pointer
\* is resolved and saved, nothing is cached for the output type, the
\* preprocessed content is rendered
ConvertBegin(id, output_type) ==
    /\ run.pc \notin InAtomic
    /\ outcome.kind # "rendering"
    /\ id \in DOMAIN ManPage
    /\ \E r \in { resolve_so_link(ManPage, id) } :
         /\ r.kind = "ok"
         /\ get_content(Content, r.mp, id, output_type) = None
         /\ \E p \in { get_preprocessed_content(r.mp, id) } :
              /\ p.kind = "ok"
              /\ ManPage' = p.mp
              /\ outcome' = [op |-> "get_converted", page |-> id,
                             before |-> ManPage[id].converted_content_id,
                             kind |-> "rendering", msg |-> "",
                             text |-> mandoc_convert(p.text, output_type),
                             raw |-> Content[ManPage[id].content_id].raw,
                             format |-> output_type, self |-> p.mp[id]]
              /\ NoteFirst(p.mp)
    /\ UNCHANGED <<Content, recalled, pathVars, webVars, syncVars>>

\* self.set_content(output_type, content) of the call: the row that
\* converted_content named when the call began is updated, if it still exists
ConvertEnd ==
    /\ run.pc \notin InAtomic
    /\ outcome.kind = "rendering"
    /\ Content' = set_content(Content, (outcome.page :> outcome.self), outcome.page,
                              outcome.format, outcome.text)
    /\ outcome' = [outcome EXCEPT !.kind = "ok"]
    /\ UNCHANGED <<ManPage, first_ptr, alive, recalled, pathVars, webVars, syncVars>>

p_1_8 == Pkg(core, <<"p">>, <<"1", ".", "8">>,
             << File(man1(<<"a",".","1">>), <<TextLine>>) >>)

StaleMirrors ==
    { Finder({core}, <<p_1_8>>), Finder({core}, <<p_1_9>>), Finder({core}, <<p_1_10>>) }

NextStale ==
    \/ \E finder \in StaleMirrors, force \in BOOLEAN :
          DoUpdate(finder, force, NotGiven, NotGiven, FALSE)
    \/ UpdatePackages
    \/ UpdateManPages(TRUE)
    \/ CollectContent
    \/ Commit
    \/ \E id \in ServeIds : \E output_type \in {"html", "txt"} :
          ConvertBegin(id, output_type)
    \/ ConvertEnd

SpecStale == InitServe /\ [][NextStale]_vars

\* no get_converted call and no transaction of a sync run is under way
BothFinished == run.pc \notin InAtomic /\ outcome.kind # "rendering"

\* C36: when a get_converted call and a sync run that replaced the raw
\* content of the same Content row have both finished, the cached html and
\* txt of the row are unset or are the rendering of the raw content the row
\* has now (stated for rows without .so requests, whose rendering depends on
\* no other page).
C36_NoStaleRendering ==
    BothFinished =>
        \A c \in DOMAIN Content :
            (\A i \in DOMAIN Content[c].raw : Content[c].raw[i].kind # "so") =>
                /\ Content[c].html # None => Tail(Content[c].html) = Content[c].raw
                /\ Content[c].txt # None => Tail(Content[c].txt) = Content[c].raw


(***************************************************************************)
(* A visitor who follows the redirects of man_page on the store the sync   *)
(* runs leave: each Location is requested in turn, as a browser does.      *)
(***************************************************************************)
MaxHops == 4

\* a page with an alias that is a symbolic link; then the page renamed, and
\* its old name a symbolic link to a page the package does not ship; then
\* both names as pages
r_1_9 == Pkg(core, <<"r">>, <<"1", ".", "9">>,
             << File(man1(<<"b",".","1">>), <<TextLine>>),
                Symlink(man1(<<"a",".","1">>), <<"b",".","1">>) >>)

r_1_10 == Pkg(core, <<"r">>, <<"1", ".", "1", "0">>,
              << File(man1(<<"c",".","1">>), <<TextLine>>),
                 Symlink(man1(<<"b",".","1">>), <<"a",".","1">>) >>)

r_1_11 == Pkg(core, <<"r">>, <<"1", ".", "1", "1">>,
              << File(man1(<<"a",".","1">>), <<TextLine>>),
                 File(man1(<<"b",".","1">>), <<TextLine>>) >>)

FollowMirrors ==
    { Finder({core}, <<r_1_9>>), Finder({core}, <<r_1_10>>), Finder({core}, <<r_1_11>>) }

FollowUrls ==
    { man \o <<"/">> \o s :
        s \in { <<"a",".","1">>, <<"b">>, <<"c",".","1",".","d","e">>, <<"c",".","3">> } }

\* the visitor requests the Location of the redirect
Follow ==
    /\ response # Nothing
    /\ response.status = 302
    /\ url \notin { trail[i] : i \in DOMAIN trail }
    /\ Len(trail) < MaxHops
    /\ trail' = Append(trail, url)
    /\ url' = response.location
    /\ kwargs' = Nothing
    /\ response' = Nothing
    /\ UNCHANGED <<Package, SymbolicLink, linked, pathVars, soVars, syncVars>>

\* the visitor got a page or an error and leaves
Leave ==
    /\ url # <<>>
    /\ \/ kwargs # Nothing /\ kwargs.kind # "match"
       \/ response # Nothing /\ response.status # 302
    /\ url' = <<>>
    /\ kwargs' = Nothing
    /\ response' = Nothing
    /\ trail' = <<>>
    /\ UNCHANGED <<Package, SymbolicLink, linked, pathVars, soVars, syncVars>>

NextFollow ==
    \/ \E finder \in FollowMirrors, force \in BOOLEAN :
          DoUpdate(finder, force, NotGiven, NotGiven, FALSE)
    \/ UpdatePackages
    \/ UpdateManPages(TRUE)
    \/ CollectContent
    \/ Commit
    \/ \E u \in FollowUrls : Type(u)
    \/ Route
    \/ ManPageView
    \/ Follow
    \/ Leave

SpecFollow == InitServe /\ [][NextFollow]_vars

\* C37: following the redirects of man_page never leads back to an address
\* the visitor was already redirected from, so every chain of redirects ends
\* in a response that is not a redirect.
C37_RedirectsNeverRevisit ==
    \A i \in DOMAIN trail : trail[i] # url


\* the keys of the ManPage rows stored for the Package row i
KeysOfPackage(i) ==
    { Key(ManPage[m].name, ManPage[m].section, ManPage[m].lang) :
        m \in { q \in DOMAIN ManPage : ManPage[q].package = i } }

\* the ingestion of the archive of the mirror package into a store that has
\* the package and nothing else
IngestedAlone(pkg) ==
    update_man_pages_of(
        Db(<<[repo |-> pkg.repo, name |-> pkg.name, version |-> pkg.version,
              description |-> pkg.desc]>>, <<>>, <<>>, <<>>),
        pkg, TRUE)

\* C38: after completed sync runs with any options, every stored package
\* whose stored version is the mirror's and whose listing has man files has
\* exactly the ManPage keys that ingesting the archive of that version
\* gives: no package is recorded at a version whose pages were not ingested.
C38_RecordedVersionIsIngested ==
    run.pc = "done" =>
        \A i \in DOMAIN Package : \A k \in DOMAIN mirror.pkgcache :
            ( /\ mirror.pkgcache[k].repo = Package[i].repo
              /\ mirror.pkgcache[k].name = Package[i].name
              /\ mirror.pkgcache[k].version = Package[i].version
              /\ Len(mirror.pkgcache[k].members) > 0 ) =>
                \A r \in { IngestedAlone(mirror.pkgcache[k]) } :
                    r.kind = "ok" => KeysOfPackage(i) = r.keys


(***************************************************************************)
(* Pages that include a page several times, or through two branches.       *)
(***************************************************************************)
\* a.1 includes b.1 once or twice, b.1 is plain or includes a.1, c.1 of
\* another package includes both
IncludeRawsOf(id) ==
    IF id = 1 THEN { <<TextLine>>, <<TextLine, SoLine(b1)>>,
                     <<SoLine(b1), TextLine, SoLine(b1)>> }
    ELSE IF id = 2 THEN { <<TextLine>>, <<TextLine, SoLine(a1)>> }
    ELSE { <<SoLine(a1), TextLine, SoLine(b1)>>, <<SoLine(z1), SoLine(b1)>> }

IncludeIds == {1, 2, 5}

NextInclude ==
    \/ \E id \in IncludeIds : \E r \in IncludeRawsOf(id) : StorePage(id, r)
    \/ \E id \in IncludeIds : DeletePage(id)
    \/ \E id \in IncludeIds : GetPreprocessedContent(id)

SpecInclude == InitSo /\ [][NextInclude]_vars

\* the raw content of the stored page p
RawOf(p) == Content[ManPage[p].content_id].raw

\* the stored pages that line i of page p requests
RequestedAt(p, i) ==
    IF ~IsSoRequest(RawOf(p)[i]) THEN {}
    ELSE LET suffix == PurePathSuffix(RawOf(p)[i].target)
             mans == PagesNamed(ManPage, PurePathStem(RawOf(p)[i].target),
                                SubSeq(suffix, 2, Len(suffix)), ManPage[p].lang)
         IN  IF Cardinality(mans) = 1 THEN mans
             ELSE { q \in mans : ManPage[q].package = ManPage[p].package }

\* the pages that page p includes
IncludedBy(p) == UNION { RequestedAt(p, i) : i \in DOMAIN RawOf(p) }

RECURSIVE IncludedBelow(_)
\* the pages of S and all that they include, directly or not
IncludedBelow(S) ==
    LET T == S \cup UNION { IncludedBy(p) : p \in S }
    IN  IF T = S THEN S ELSE IncludedBelow(T)

\* page p includes, directly or not, a page that includes itself
CycleBelow(p) == \E q \in IncludedBelow({p}) : q \in IncludedBelow(IncludedBy(q))

RECURSIVE Unfold(_, _)
\* page p from line i on, every request replaced by the page it names
Unfold(p, i) ==
    IF i > Len(RawOf(p)) THEN <<>>
    ELSE (IF RequestedAt(p, i) # {}
          THEN Unfold(CHOOSE q \in RequestedAt(p, i) : TRUE, 1)
          ELSE IF IsSoRequest(RawOf(p)[i]) THEN <<FallbackLine(RawOf(p)[i].target)>>
          ELSE <<RawOf(p)[i]>>)
         \o Unfold(p, i + 1)

\* C39: cycle detection has no false positives: get_preprocessed_content
\* raises the inclusion cycle only when the page includes, directly or not,
\* a page that includes itself; a page included several times, or reached
\* through two branches, is expanded each time.
C39_NoFalseCycle ==
    (outcome # Nothing /\ outcome.op = "get_preprocessed_content") =>
        /\ (outcome.kind = "SoelimError" /\ outcome.msg = "inclusion cycle detected")
              => CycleBelow(outcome.page)
        /\ ~CycleBelow(outcome.page) =>
              /\ outcome.kind = "ok"
              /\ outcome.text = Unfold(outcome.page, 1)

\* c.1 was expanded: it includes a.1 and b.1, and a.1 includes b.1 on two
\* lines
C39_Witness ==
    /\ outcome # Nothing
    /\ outcome.op = "get_preprocessed_content"
    /\ outcome.kind = "ok"
    /\ \E q \in IncludedBy(outcome.page) :
          \E r \in IncludedBy(outcome.page) \cap IncludedBy(q) :
              \E i, j \in DOMAIN RawOf(q) :
                  i # j /\ r \in RequestedAt(q, i) /\ r \in RequestedAt(q, j)

=============================================================================
